---- MODULE Spec2Model ----
(***************************************************************************)
(* Model of the Baasix SDK core: the authenticated request pipeline of     *)
(* HttpClient (src/src/client.ts) with its single-flight token refresh,    *)
(* and the realtime connection / subscription registry of RealtimeModule   *)
(* (src/src/modules/realtime.ts).                                          *)
(*                                                                         *)
(* Every `await` of the source is a suspension point: a call is cut into   *)
(* one action per continuation, and the actions of different calls         *)
(* interleave freely.                                                      *)
(***************************************************************************)
EXTENDS Integers, Sequences, FiniteSets, TLC

\* ------------------------------------------------------------------ bounds
MaxReq == 2        \* request() calls of one behaviour
MaxEpisodes == 2   \* refresh episodes of one behaviour
MaxTicks == 1      \* advances of the clock
MaxCallbacks == 2  \* subscribe() calls of one behaviour
MaxExecCallbacks == 2  \* subscribeToExecution() calls of one behaviour
MaxSockets == 2    \* transport handles created in one behaviour
MaxConnectCalls == 2  \* connect() calls waiting for one attempt
MaxReconnects == 1 \* reconnects the transports report in one behaviour
MaxListeners == 2  \* onConnectionChange() calls of one behaviour
MaxRegistrations == 2  \* subscribe(), subscribeToExecution() and
                       \* onConnectionChange() calls of one behaviour, together

Reqs == 1 .. MaxReq
Episodes == 1 .. MaxEpisodes

\* ------------------------------------------------------------ time, values
BufferTime == 60000               \* bufferTime = 60 * 1000
StartTime == 100 * 1000           \* Date.now() when the behaviour starts
TickMs == 30 * 1000               \* one advance of the clock

None == "none"                    \* null / undefined of a string value
InitialToken == "tok0"            \* the access token stored by an earlier login
InitialRefresh == "ref0"          \* the refresh token stored by an earlier login
StaticToken == "static"           \* config.token
TenantId == "tenant1"             \* config.tenantId

\* data.token / data.refreshToken of the refresh answer of episode e
NewToken(e) == <<"tok1", "tok2", "tok3", "tok4">>[e]
NewRefresh(e) == <<"ref1", "ref2", "ref3", "ref4">>[e]
\* the tokens of the answer to the POST /auth/refresh of AuthModule.refreshToken()
DirectToken == "tokA"
DirectRefresh == "refA"
\* the tokens of the answer to POST /auth/switch-tenant
SwitchedToken == "tokT"
SwitchedRefresh == "refT"
\* the tenants setTenant() and switchTenant() are called with
Tenants == {TenantId, "tenant2"}

\* data.expiresIn (seconds) of a refresh answer; 0 stands for an absent field
ExpiresInChoices == {0, 30, 600}

\* ------------------------------------------------- number <-> string (digits)
RECURSIVE NumToString(_)
\* Number.prototype.toString() of a non-negative integer: its decimal digits
NumToString(n) ==
  IF n < 10 THEN <<n>> ELSE NumToString(n \div 10) \o <<n % 10>>

RECURSIVE ParseDigits(_, _)
ParseDigits(s, acc) ==
  IF s = <<>> THEN acc ELSE ParseDigits(Tail(s), acc * 10 + Head(s))

\* parseInt(expiry, 10) of a stored digit string
ParseInt(s) == ParseDigits(s, 0)

\* ---------------------------------------------------- objects (JS spread)
\* { ...a, ...b }: the properties of b override those of a
Spread(a, b) ==
  [k \in (DOMAIN a) \cup (DOMAIN b) |-> IF k \in DOMAIN b THEN b[k] ELSE a[k]]

EmptyObj == [k \in {} |-> None]

\* ------------------------------------------------------------------ state
VARIABLES
  authMode,        \* config.authMode: "jwt" | "cookie"
  autoRefresh,     \* config.autoRefresh
  configToken,     \* config.token (None when not configured)
  tenantId,        \* config.tenantId (None when not configured)
  store,           \* the storage adapter: a map from storage key to string
  now,             \* Date.now()
  ticks,           \* advances of the clock so far
  refreshPromise,  \* HttpClient.refreshPromise: 0 (null) or the episode pending
  episode,         \* state of every refresh episode (the async IIFE)
  nextEp,          \* refresh episodes started so far
  refreshCalls,    \* fetch() calls to /auth/refresh issued so far
  req,             \* state of every request() call
  nreq,            \* request() calls this behaviour makes
  logout,          \* AuthModule.logout(): the continuation it is suspended
                   \* before, and the request() call of its GET /auth/logout
  authRefresh,     \* AuthModule.refreshToken(): the continuation it is
                   \* suspended before, the request() call of its POST
                   \* /auth/refresh, the refresh token it read
  tenantCall       \* AuthModule.switchTenant(): the continuation it is
                   \* suspended before, the request() call of its POST
                   \* /auth/switch-tenant, its argument

httpVars == <<authMode, autoRefresh, configToken, tenantId, store, now, ticks,
              refreshPromise, episode, nextEp, refreshCalls, req, nreq, logout,
              authRefresh, tenantCall>>

\* STORAGE_KEYS
ACCESS_TOKEN == "baasix_access_token"
REFRESH_TOKEN == "baasix_refresh_token"
TOKEN_EXPIRY == "baasix_token_expiry"
TENANT == "baasix_tenant"

\* storage.get(key) ?? null, for the string-valued keys
StorageGet(s, key) == IF key \in DOMAIN s THEN s[key] ELSE None

\* storage.set(key, value)
StorageSet(s, key, value) == (key :> value) @@ s

\* storage.remove(key)
StorageRemove(s, key) == [k \in (DOMAIN s) \ {key} |-> s[k]]

\* what the store holds under key: the entry, or nothing
Held(s, key) == [k \in (DOMAIN s) \cap {key} |-> s[k]]

\* ------------------------------------------------------- refresh episodes
\* isTokenExpired(), on the expiry string that storage.get returned
IsTokenExpired(expiry, t) ==
  IF expiry = <<>> THEN FALSE
  ELSE t >= ParseInt(expiry) - BufferTime

\* storage.get(TOKEN_EXPIRY): the digit string, <<>> when absent
ReadExpiry(s) == IF TOKEN_EXPIRY \in DOMAIN s THEN s[TOKEN_EXPIRY] ELSE <<>>

\* 1 when the settled episode e issued a call to the refresh endpoint
CalledEndpoint(e) ==
  IF episode[e].error \in {"NO_REFRESH_TOKEN", "STORAGE_GET_FAILED"} THEN 0 ELSE 1

\* rt: the stored refresh token read; body: the refresh token in the body of
\* the call in flight; token, refreshToken, expiresAt: the tokens object;
\* written: the keys the episode has stored a value under; notified: calls
\* of config.onTokenRefresh the episode has made; prev: what the store held
\* under the key of the storage.set being awaited
IdleEpisode == [pc |-> "unused", rt |-> None, body |-> None, token |-> None,
                refreshToken |-> None, expiresAt |-> 0, error |-> None,
                written |-> {}, notified |-> 0, prev |-> EmptyObj]

Settled(e) == episode[e].pc \in {"ok", "fail"}

\* refreshToken(), up to its first await: the caller attaches to the pending
\* episode, or a new episode starts and reads the stored refresh token
CanRefresh == refreshPromise # 0 \/ nextEp < MaxEpisodes

AttachedEpisode == IF refreshPromise # 0 THEN refreshPromise ELSE nextEp + 1

\* refreshToken() without the `if (this.refreshPromise)` check: every call starts
\* an episode of its own
RefreshTokenCallNoDedup ==
  IF nextEp >= MaxEpisodes
  THEN UNCHANGED <<refreshPromise, episode, nextEp>>
  ELSE /\ refreshPromise' = nextEp + 1
       /\ nextEp' = nextEp + 1
       /\ episode' = [episode EXCEPT ![nextEp + 1] =
                        [IdleEpisode EXCEPT !.pc = "readRT",
                                            !.rt = StorageGet(store, REFRESH_TOKEN)]]

RefreshTokenCall ==
  IF refreshPromise # 0
  THEN UNCHANGED <<refreshPromise, episode, nextEp>>
  ELSE /\ refreshPromise' = nextEp + 1
       /\ nextEp' = nextEp + 1
       /\ episode' = [episode EXCEPT ![nextEp + 1] =
                        [IdleEpisode EXCEPT !.pc = "readRT",
                                            !.rt = StorageGet(store, REFRESH_TOKEN)]]

\* the `finally` of the episode: refreshPromise = null, then the promise settles
\* with the tokens object (token, refreshToken) or with the error;
\* SettleEpisodeKeepPending is the episode settling without that `finally`
SettleEpisodeKeepPending(e, how, err) ==
  /\ UNCHANGED refreshPromise
  /\ episode' = [episode EXCEPT ![e] =
                   [IdleEpisode EXCEPT
                      !.pc = how, !.error = err,
                      !.token = IF how = "ok" THEN episode[e].token ELSE None,
                      !.refreshToken = IF how = "ok" THEN episode[e].refreshToken
                                       ELSE None,
                      !.written = episode[e].written,
                      !.notified = IF how = "ok" THEN 1 ELSE 0]]

SettleEpisode(e, how, err) ==
  /\ refreshPromise' = 0
  /\ episode' = [episode EXCEPT ![e] =
                   [IdleEpisode EXCEPT
                      !.pc = how, !.error = err,
                      !.token = IF how = "ok" THEN episode[e].token ELSE None,
                      !.refreshToken = IF how = "ok" THEN episode[e].refreshToken
                                       ELSE None,
                      !.written = episode[e].written,
                      !.notified = IF how = "ok" THEN 1 ELSE 0]]

\* what `await this.refreshToken()` hands a caller of the settled episode e:
\* the tokens object the promise resolved with, or the error it rejected with
NoOutcome == [ep |-> 0, pc |-> "none", error |-> None, token |-> None,
              refreshToken |-> None]

Outcome(e) == [ep |-> e, pc |-> episode[e].pc, error |-> episode[e].error,
               token |-> episode[e].token,
               refreshToken |-> episode[e].refreshToken]

\* the episode calls the refresh endpoint whether or not a refresh token was read
RefreshSendAlways(e) ==
  /\ episode[e].pc = "readRT"
  /\ episode' = [episode EXCEPT
                   ![e].pc = "fetch",
                   ![e].body = IF authMode = "jwt" THEN episode[e].rt ELSE None]
  /\ refreshCalls' = refreshCalls + 1
  /\ UNCHANGED refreshPromise
  /\ UNCHANGED <<nreq, logout, authRefresh, authMode, autoRefresh, configToken, tenantId, tenantCall, store, now, ticks,
                 nextEp, req>>

\* after `await storage.get(REFRESH_TOKEN)`: NO_REFRESH_TOKEN, or fetch(/auth/refresh)
RefreshSend(e) ==
  /\ episode[e].pc = "readRT"
  /\ IF episode[e].rt = None /\ authMode = "jwt"
     THEN /\ SettleEpisode(e, "fail", "NO_REFRESH_TOKEN")
          /\ UNCHANGED refreshCalls
     ELSE /\ episode' = [episode EXCEPT
                            ![e].pc = "fetch",
                            ![e].body = IF authMode = "jwt" THEN episode[e].rt
                                        ELSE None]
          /\ refreshCalls' = refreshCalls + 1
          /\ UNCHANGED refreshPromise
  /\ UNCHANGED <<nreq, logout, authRefresh, authMode, autoRefresh, configToken, tenantId, tenantCall, store, now, ticks,
                 nextEp, req>>

\* the refresh endpoint rejects the call (!response.ok) or the fetch fails
RefreshRejected(e, err) ==
  /\ episode[e].pc = "fetch"
  /\ nreq > 1 => err = "REFRESH_FAILED"
  /\ SettleEpisode(e, "fail", err)
  /\ UNCHANGED <<nreq, logout, authRefresh, authMode, autoRefresh, configToken, tenantId, tenantCall, store, now, ticks,
                 nextEp, refreshCalls, req>>

\* the credential store rejects the call the episode awaits: the
\* storage.get(REFRESH_TOKEN) before the endpoint is called, or one of the
\* storage.set calls after it answered; applied: the rejected set has stored
\* its value all the same (the values of the sets completed before stay)
StorageRejected(e, applied) ==
  /\ episode[e].pc \in {"readRT", "k1", "k2", "k3"}
  /\ nreq = 1
  /\ episode[e].pc = "readRT" => applied
  /\ LET ep == episode[e]
         key == CASE ep.pc = "k1" -> ACCESS_TOKEN
                  [] ep.pc = "k2" -> REFRESH_TOKEN
                  [] OTHER -> TOKEN_EXPIRY
     IN  /\ refreshPromise' = 0
         /\ episode' = [episode EXCEPT ![e] =
                          [IdleEpisode EXCEPT
                             !.pc = "fail",
                             !.error = IF ep.pc = "readRT" THEN "STORAGE_GET_FAILED"
                                       ELSE "STORAGE_SET_FAILED",
                             !.written = IF applied THEN ep.written
                                         ELSE ep.written \ {key}]]
         /\ store' = IF applied THEN store
                     ELSE ep.prev @@ StorageRemove(store, key)
  /\ UNCHANGED <<nreq, logout, authRefresh, authMode, autoRefresh, configToken, tenantId, tenantCall,
                 now, ticks, nextEp, refreshCalls, req>>

\* the refresh endpoint answers { token, refreshToken?, expiresIn? }: the tokens
\* object is built and the access token is written
RefreshAnswered(e, withRefresh, expiresIn) ==
  /\ episode[e].pc = "fetch"
  /\ nreq > 1 => withRefresh /\ expiresIn # 30
  /\ episode' = [episode EXCEPT
                   ![e].pc = "k1",
                   ![e].body = None,
                   ![e].token = NewToken(e),
                   ![e].written = {ACCESS_TOKEN},
                   ![e].prev = Held(store, ACCESS_TOKEN),
                   ![e].refreshToken = IF withRefresh THEN NewRefresh(e) ELSE None,
                   ![e].expiresAt = IF expiresIn # 0 THEN now + expiresIn * 1000 ELSE 0]
  /\ store' = StorageSet(store, ACCESS_TOKEN, NewToken(e))
  /\ UNCHANGED <<nreq, logout, authRefresh, authMode, autoRefresh, configToken, tenantId, tenantCall, now, ticks,
                 refreshPromise, nextEp, refreshCalls, req>>

\* the continuations after each `await storage.set(...)`: the next field the
\* tokens object has is written; after the last one onTokenRefresh runs and the
\* episode settles
RefreshStore(e) ==
  /\ episode[e].pc \in {"k1", "k2", "k3"}
  /\ LET ep == episode[e] IN
     IF ep.pc = "k1" /\ ep.refreshToken # None
     THEN /\ store' = StorageSet(store, REFRESH_TOKEN, ep.refreshToken)
          /\ episode' = [episode EXCEPT ![e].pc = "k2",
                                        ![e].written = @ \cup {REFRESH_TOKEN},
                                        ![e].prev = Held(store, REFRESH_TOKEN)]
          /\ UNCHANGED refreshPromise
     ELSE IF ep.pc \in {"k1", "k2"} /\ ep.expiresAt # 0
     THEN /\ store' = StorageSet(store, TOKEN_EXPIRY, NumToString(ep.expiresAt))
          /\ episode' = [episode EXCEPT ![e].pc = "k3",
                                        ![e].written = @ \cup {TOKEN_EXPIRY},
                                        ![e].prev = Held(store, TOKEN_EXPIRY)]
          /\ UNCHANGED refreshPromise
     ELSE /\ SettleEpisode(e, "ok", None)
          /\ UNCHANGED store
  /\ UNCHANGED <<nreq, logout, authRefresh, authMode, autoRefresh, configToken, tenantId, tenantCall, now, ticks,
                 nextEp, refreshCalls, req>>

\* --------------------------------------------------------------- requests
\* config.headers
ConfigHeaders == ("X-App" :> "app")

\* the caller's fetch options (`...fetchOptions` of request()): none, or headers
CallerOptions ==
  {EmptyObj, ("headers" :> ("Content-Type" :> "text/plain"))}

Statuses == {200, 401, 500}

\* pc: the continuation the call is suspended before ("held": the call is
\* the POST that a running AuthModule.refreshToken() has yet to make); hdrs, expiryRead, tokRead,
\* ep: locals of buildHeaders / request; sent: the headers of the attempt in
\* flight; attempts, answers, authErrors: what the call has done so far;
\* wasExpired: the stored expiry was within the buffer when the call was made;
\* proactive: outcome of the refresh awaited before the first attempt;
\* proCalls: header builds of the call that awaited a refresh;
\* refreshes: refreshes awaited by the call that called the refresh endpoint;
\* timer: the setTimeout that aborts the call's AbortController ("off" before it
\* is set and after clearTimeout, "armed", "fired"); signal: the attempt in
\* flight was given the controller's signal; got: what the refresh the call
\* last awaited settled with; rejected: the bearer token of the attempt that
\* was answered 401
IdleRequest == [pc |-> "idle", phase |-> 1, skipAuth |-> FALSE, fo |-> EmptyObj,
                hdrs |-> EmptyObj, expiryRead |-> <<>>, tokRead |-> None,
                ep |-> 0, sent |-> EmptyObj, attempts |-> 0, answers |-> <<>>,
                result |-> "pending", status |-> 0, code |-> None, authErrors |-> 0,
                refreshes |-> 0, proactive |-> "no", proCalls |-> 0,
                wasExpired |-> FALSE, timer |-> "off", signal |-> FALSE,
                got |-> NoOutcome, rejected |-> None, upload |-> "no"]

\* buildHeaders(): the headers before the authorization header is added
BaseHeaders ==
  LET h == Spread(("Content-Type" :> "application/json"), ConfigHeaders)
  IN  IF tenantId # None THEN Spread(h, ("X-Tenant-Id" :> tenantId)) ELSE h

\* getAccessToken(), up to its await: the static token, null in cookie mode,
\* or the stored access token
GetAccessToken ==
  IF configToken # None THEN configToken
  ELSE IF authMode = "cookie" THEN None
  ELSE StorageGet(store, ACCESS_TOKEN)

\* fetchOptions.headers as spread into the headers literal
CallerHeaders(fo) == IF "headers" \in DOMAIN fo THEN fo["headers"] ELSE EmptyObj

\* the init object given to fetch():
\* { headers: { ...headers, ...fetchOptions.headers }, ...fetchOptions }
FetchInit(headers, fo) ==
  Spread(("headers" :> Spread(headers, CallerHeaders(fo))), fo)

\* the signal of the init object: the original attempt is given
\* controller.signal, the retry's init object has no signal
AttemptSignal(phase) == phase = 1

\* upload(): `delete headers["Content-Type"]`
UploadHeaders(h) == [k \in DOMAIN h \ {"Content-Type"} |-> h[k]]

\* fetch(url, init): one more network attempt of the call; the timeout of the
\* call is set right before the original attempt. upload() sends the headers
\* of buildHeaders() without the content type, by fetch or by XMLHttpRequest
IssueFetch(rec) ==
  [rec EXCEPT !.pc = "fetch", !.attempts = @ + 1,
              !.sent = IF rec.upload = "no"
                       THEN FetchInit(rec.hdrs, rec.fo)["headers"]
                       ELSE UploadHeaders(rec.hdrs),
              !.signal = AttemptSignal(rec.phase),
              !.timer = IF rec.phase = 1 THEN "armed" ELSE @]

\* buildHeaders() that adds the authorization header in every auth mode
BuildHeadersAnyMode(rec, skip) ==
  LET r0 == [rec EXCEPT !.hdrs = BaseHeaders] IN
  IF skip THEN IssueFetch(r0)
  ELSE IF autoRefresh
       THEN [r0 EXCEPT !.pc = "bh_exp", !.expiryRead = ReadExpiry(store)]
       ELSE [r0 EXCEPT !.pc = "bh_tok",
                       !.tokRead = IF configToken # None THEN configToken
                                   ELSE StorageGet(store, ACCESS_TOKEN)]

\* buildHeaders() that does not look at options.skipAuth
BuildHeadersIgnoreSkip(rec, skip) ==
  LET r0 == [rec EXCEPT !.hdrs = BaseHeaders] IN
  IF authMode # "jwt" THEN IssueFetch(r0)
  ELSE IF autoRefresh
       THEN [r0 EXCEPT !.pc = "bh_exp", !.expiryRead = ReadExpiry(store)]
       ELSE [r0 EXCEPT !.pc = "bh_tok", !.tokRead = GetAccessToken]

\* buildHeaders({ skipAuth }), up to its first await
BuildHeadersBegin(rec, skip) ==
  LET r0 == [rec EXCEPT !.hdrs = BaseHeaders] IN
  IF skip \/ authMode # "jwt" THEN IssueFetch(r0)
  ELSE IF autoRefresh
       THEN [r0 EXCEPT !.pc = "bh_exp", !.expiryRead = ReadExpiry(store)]
       ELSE [r0 EXCEPT !.pc = "bh_tok", !.tokRead = GetAccessToken]

\* request(method, path, options), up to its first await
StartRequest(r, skip, fo) ==
  /\ req[r].pc = "idle"
  /\ r <= nreq
  /\ \A q \in 1 .. r - 1 : req[q].pc # "idle"
  /\ nreq > 1 => ~skip /\ fo = EmptyObj
  /\ req' = [req EXCEPT ![r] =
               BuildHeadersBegin(
                 [req[r] EXCEPT !.skipAuth = skip, !.fo = fo,
                                !.wasExpired = IsTokenExpired(ReadExpiry(store), now)],
                 skip)]
  /\ UNCHANGED <<nreq, logout, authRefresh, authMode, autoRefresh, configToken, tenantId, tenantCall, store, now, ticks,
                 refreshPromise, episode, nextEp, refreshCalls>>

\* upload(path, formData, options), up to its first await; progress: the
\* caller passed onProgress and XMLHttpRequest exists, so the upload is sent by
\* XMLHttpRequest, otherwise by fetch
StartUpload(r, skip, progress) ==
  /\ nreq = 1
  /\ req[r].pc = "idle"
  /\ r <= nreq
  /\ \A q \in 1 .. r - 1 : req[q].pc # "idle"
  /\ req' = [req EXCEPT ![r] =
               BuildHeadersBegin(
                 [req[r] EXCEPT !.skipAuth = skip,
                                !.upload = IF progress THEN "xhr" ELSE "fetch",
                                !.wasExpired = IsTokenExpired(ReadExpiry(store), now)],
                 skip)]
  /\ UNCHANGED <<nreq, logout, authRefresh, authMode, autoRefresh, configToken,
                 tenantId, tenantCall, store, now, ticks, refreshPromise, episode,
                 nextEp, refreshCalls>>

\* buildHeaders after `await isTokenExpired()`: refresh first when the expiry
\* read is within the buffer, otherwise read the token
ExpiryChecked(r) ==
  /\ req[r].pc = "bh_exp"
  /\ IF IsTokenExpired(req[r].expiryRead, now)
     THEN /\ CanRefresh
          /\ RefreshTokenCall
          /\ req' = [req EXCEPT ![r].pc = "bh_wait", ![r].ep = AttachedEpisode,
                                ![r].expiryRead = <<>>]
     ELSE /\ req' = [req EXCEPT ![r].pc = "bh_tok", ![r].tokRead = GetAccessToken,
                                ![r].expiryRead = <<>>]
          /\ UNCHANGED <<refreshPromise, episode, nextEp>>
  /\ UNCHANGED <<nreq, logout, authRefresh, authMode, autoRefresh, configToken, tenantId, tenantCall, store, now, ticks,
                 refreshCalls>>

\* buildHeaders after `await this.refreshToken()`: a failure is swallowed
ProactiveSettled(r) ==
  /\ req[r].pc = "bh_wait"
  /\ Settled(req[r].ep)
  /\ req' = [req EXCEPT ![r].pc = "bh_tok", ![r].tokRead = GetAccessToken,
                        ![r].ep = 0,
                        ![r].got = Outcome(req[r].ep),
                        ![r].proCalls = @ + 1,
                        ![r].refreshes = @ + CalledEndpoint(req[r].ep),
                        ![r].proactive = IF req[r].phase = 1
                                         THEN episode[req[r].ep].pc ELSE @]
  /\ UNCHANGED <<nreq, logout, authRefresh, authMode, autoRefresh, configToken, tenantId, tenantCall, store, now, ticks,
                 refreshPromise, episode, nextEp, refreshCalls>>

\* buildHeaders after `await getAccessToken()`, and the fetch that follows
TokenRead(r) ==
  /\ req[r].pc = "bh_tok"
  /\ LET t == req[r].tokRead
         h == IF t # None
              THEN Spread(req[r].hdrs, ("Authorization" :> <<"Bearer", t>>))
              ELSE req[r].hdrs
     IN  req' = [req EXCEPT ![r] =
                   IssueFetch([req[r] EXCEPT !.hdrs = h, !.tokRead = None])]
  /\ UNCHANGED <<nreq, logout, authRefresh, authMode, autoRefresh, configToken, tenantId, tenantCall, store, now, ticks,
                 refreshPromise, episode, nextEp, refreshCalls>>

\* the call settles, but the catch block of the 401 path never calls onAuthError
FinishSilent(rec, result, status, code, authError) ==
  [rec EXCEPT !.pc = "done", !.result = result, !.status = status, !.code = code,
              !.sent = EmptyObj, !.hdrs = EmptyObj, !.ep = 0,
              !.timer = "off", !.signal = FALSE]

\* the call settles: it resolves, or rejects with BaasixError(status, code);
\* authError: this.config.onAuthError?.() runs first
Finish(rec, result, status, code, authError) ==
  [rec EXCEPT !.pc = "done", !.result = result, !.status = status, !.code = code,
              !.authErrors = IF authError THEN @ + 1 ELSE @,
              !.sent = EmptyObj, !.hdrs = EmptyObj, !.ep = 0,
              !.timer = "off", !.signal = FALSE]

\* the 401 handler retries without calling refreshToken() first
RespondedNoRefresh(r, status) ==
  /\ req[r].pc = "fetch" /\ req[r].upload = "no"
  /\ nreq > 1 => status \in {200, 401}
  /\ LET rec == [req[r] EXCEPT !.answers = Append(@, status)]
         ok == status \in 200 .. 299
     IN  req' = [req EXCEPT ![r] =
                   IF rec.phase = 1 /\ status = 401 /\ ~rec.skipAuth /\ autoRefresh
                   THEN BuildHeadersBegin(
                          [rec EXCEPT !.phase = 2, !.sent = EmptyObj,
                                      !.hdrs = EmptyObj, !.signal = FALSE], FALSE)
                   ELSE IF ok THEN Finish(rec, "ok", status, None, FALSE)
                   ELSE Finish(rec, "error", status, "SERVER", rec.phase = 2)]
  /\ UNCHANGED <<nreq, logout, authRefresh, authMode, autoRefresh, configToken, tenantId, tenantCall, store, now, ticks,
                 refreshPromise, episode, nextEp, refreshCalls>>

\* the bearer token in the headers of an attempt, None when they carry none
BearerOf(h) ==
  IF "Authorization" \in DOMAIN h THEN h["Authorization"][2] ELSE None

\* the server answers an attempt with a status
Responded(r, status) ==
  /\ req[r].pc = "fetch" /\ req[r].upload = "no"
  /\ nreq > 1 => status \in {200, 401}
  /\ LET rec == req[r]
         ok == status \in 200 .. 299
     IN
     IF rec.phase = 1 /\ status = 401 /\ ~rec.skipAuth /\ autoRefresh
     THEN /\ CanRefresh
          /\ RefreshTokenCall
          /\ req' = [req EXCEPT ![r].pc = "r_wait", ![r].ep = AttachedEpisode,
                                ![r].rejected = BearerOf(rec.sent),
                                ![r].answers = Append(@, status),
                                ![r].sent = EmptyObj, ![r].hdrs = EmptyObj,
                                ![r].signal = FALSE]
     ELSE /\ req' = [req EXCEPT ![r] =
                       LET rec1 == [rec EXCEPT !.answers = Append(@, status)] IN
                       IF ok THEN Finish(rec1, "ok", status, None, FALSE)
                       ELSE Finish(rec1, "error", status, "SERVER", rec.phase = 2)]
          /\ UNCHANGED <<refreshPromise, episode, nextEp>>
  /\ UNCHANGED <<nreq, logout, authRefresh, authMode, autoRefresh, configToken, tenantId, tenantCall, store, now, ticks,
                 refreshCalls>>

\* the server answers an upload: xhr.onload, or the fetch resolved; a status
\* outside 2xx rejects the call whatever it is, and nothing else is done
UploadResponded(r, status) ==
  /\ req[r].pc = "fetch" /\ req[r].upload # "no"
  /\ req' = [req EXCEPT ![r] =
               LET rec == [req[r] EXCEPT !.answers = Append(@, status)] IN
               IF status \in 200 .. 299 THEN Finish(rec, "ok", status, None, FALSE)
               ELSE Finish(rec, "error", status,
                           IF rec.upload = "xhr" THEN "UPLOAD_ERROR" ELSE "SERVER",
                           FALSE)]
  /\ UNCHANGED <<nreq, logout, authRefresh, authMode, autoRefresh, configToken,
                 tenantId, tenantCall, store, now, ticks, refreshPromise, episode,
                 nextEp, refreshCalls>>

\* fetch() rejects: no response was obtained
NetworkFailed(r) ==
  /\ req[r].pc = "fetch"
  /\ nreq = 1
  /\ req' = [req EXCEPT ![r] =
               Finish(req[r], "error", 0,
                      IF req[r].upload = "fetch" THEN "TypeError" ELSE "NETWORK_ERROR",
                      req[r].phase = 2)]
  /\ UNCHANGED <<nreq, logout, authRefresh, authMode, autoRefresh, configToken, tenantId, tenantCall, store, now, ticks,
                 refreshPromise, episode, nextEp, refreshCalls>>

\* a timeout whose abort also ends the refresh that is pending
RequestTimeoutCancelling(r) ==
  /\ req[r].timer = "armed"
  /\ nreq = 1 \/ refreshPromise # 0
  /\ req' = [req EXCEPT ![r] =
               IF req[r].pc = "fetch" /\ req[r].signal
               THEN IF req[r].upload = "fetch"
                    THEN Finish(req[r], "error", 0, "AbortError", FALSE)
                    ELSE Finish(req[r], "error", 408, "TIMEOUT", FALSE)
               ELSE [req[r] EXCEPT !.timer = "fired"]]
  /\ IF refreshPromise # 0 /\ ~Settled(refreshPromise)
     THEN SettleEpisode(refreshPromise, "fail", "NETWORK_ERROR")
     ELSE UNCHANGED <<refreshPromise, episode>>
  /\ UNCHANGED <<nreq, logout, authRefresh, authMode, autoRefresh, configToken, tenantId, tenantCall, store, now, ticks,
                 nextEp, refreshCalls>>

\* the timeout of the call expires: controller.abort(); an attempt in flight
\* that was given the signal rejects with an AbortError, which the catch block
\* turns into BaasixError("Request timeout", 408, "TIMEOUT"). With several
\* calls running, the timeouts taken are those that expire while a refresh is
\* pending.
RequestTimeout(r) ==
  /\ req[r].timer = "armed"
  /\ nreq = 1 \/ refreshPromise # 0
  /\ req' = [req EXCEPT ![r] =
               IF req[r].pc = "fetch" /\ req[r].signal
               THEN IF req[r].upload = "fetch"
                    THEN Finish(req[r], "error", 0, "AbortError", FALSE)
                    ELSE Finish(req[r], "error", 408, "TIMEOUT", FALSE)
               ELSE [req[r] EXCEPT !.timer = "fired"]]
  /\ UNCHANGED <<nreq, logout, authRefresh, authMode, autoRefresh, configToken, tenantId, tenantCall, store, now, ticks,
                 refreshPromise, episode, nextEp, refreshCalls>>

\* status and code of the BaasixError a failed refresh surfaces as
RefreshErrorStatus(err) ==
  IF err \in {"NETWORK_ERROR", "STORAGE_GET_FAILED", "STORAGE_SET_FAILED"}
  THEN 0 ELSE 401

\* a plain Error (a storage failure) leaves request() as NETWORK_ERROR
RefreshErrorCode(err) ==
  IF err \in {"STORAGE_GET_FAILED", "STORAGE_SET_FAILED"}
  THEN "NETWORK_ERROR" ELSE err

\* request() after `await this.refreshToken()` on the 401 path: rebuild the
\* headers and retry, or onAuthError and the refresh's failure
ReactiveSettled(r) ==
  /\ req[r].pc = "r_wait"
  /\ Settled(req[r].ep)
  /\ LET rec == req[r]
         ep == episode[rec.ep]
     IN  req' = [req EXCEPT ![r] =
                   LET rec1 == [rec EXCEPT !.refreshes = @ + CalledEndpoint(rec.ep),
                                           !.got = Outcome(rec.ep),
                                           !.ep = 0]
                   IN  IF ep.pc = "ok"
                       THEN BuildHeadersBegin([rec1 EXCEPT !.phase = 2], FALSE)
                       ELSE Finish(rec1, "error", RefreshErrorStatus(ep.error),
                                   RefreshErrorCode(ep.error), TRUE)]
  /\ UNCHANGED <<nreq, logout, authRefresh, authMode, autoRefresh, configToken, tenantId, tenantCall, store, now, ticks,
                 refreshPromise, episode, nextEp, refreshCalls>>

\* the request() call r has settled
Done(r) == req[r].pc = "done"

IdleAuthRefresh == [pc |-> "idle", r |-> 0, rt |-> None]

\* AuthModule.refreshToken(), up to its first await: storage.get(REFRESH_TOKEN);
\* it is the last call the behaviour makes, and is not combined with logout()
AuthRefresh(r) ==
  /\ authRefresh.pc = "idle" /\ logout.pc = "idle" /\ tenantCall.pc = "idle"
  /\ req[r].pc = "idle"
  /\ r = nreq
  /\ \A q \in 1 .. r - 1 : req[q].pc # "idle"
  /\ authRefresh' = [pc |-> "readRT", r |-> r, rt |-> StorageGet(store, REFRESH_TOKEN)]
  /\ req' = [req EXCEPT ![r].pc = "held"]
  /\ UNCHANGED <<nreq, logout, authMode, autoRefresh, configToken, tenantId, tenantCall, store,
                 now, ticks, refreshPromise, episode, nextEp, refreshCalls>>

\* AuthModule.refreshToken() after each await: client.post("/auth/refresh")
\* is called (a request() call like any other); when it resolved, storeTokens()
\* writes the access token of the answer (jwt mode) and then its refresh
\* token; after the last write TOKEN_REFRESHED is emitted. When the POST was
\* rejected the error leaves refreshToken().
AuthRefreshContinue ==
  /\ authRefresh.pc \in {"readRT", "post", "s1", "s2"}
  /\ authRefresh.pc = "post" => Done(authRefresh.r)
  /\ LET a == authRefresh
         ok == req[a.r].result = "ok"
     IN  /\ authRefresh' =
              [a EXCEPT !.pc = CASE a.pc = "readRT" -> "post"
                                 [] a.pc = "post" -> IF ok THEN "s1" ELSE "failed"
                                 [] a.pc = "s1" -> "s2"
                                 [] OTHER -> "done"]
         /\ req' = IF a.pc = "readRT"
                   THEN [req EXCEPT ![a.r] =
                           BuildHeadersBegin(
                             [req[a.r] EXCEPT !.wasExpired =
                                IsTokenExpired(ReadExpiry(store), now)],
                             FALSE)]
                   ELSE req
         /\ store' = CASE a.pc = "post" /\ ok /\ authMode = "jwt" ->
                           StorageSet(store, ACCESS_TOKEN, DirectToken)
                       [] a.pc = "s1" /\ authMode = "jwt" ->
                           StorageSet(store, REFRESH_TOKEN, DirectRefresh)
                       [] OTHER -> store
  /\ UNCHANGED <<nreq, logout, authMode, autoRefresh, configToken, tenantId, tenantCall,
                 now, ticks, refreshPromise, episode, nextEp, refreshCalls>>

IdleTenantCall == [pc |-> "idle", r |-> 0, t |-> None]

\* Baasix.setTenant(tenantId): updateConfig, then storage.set is called; the
\* tenant is set and cleared after the request() call of the behaviour, which
\* may be the one of logout() or switchTenant()
SetTenant(t) ==
  /\ nreq = 1
  /\ tenantCall.pc = "idle" /\ logout.pc \in {"idle", "done"}
  /\ req[1].pc = "done"
  /\ tenantId' = t
  /\ store' = StorageSet(store, TENANT, t)
  /\ UNCHANGED <<nreq, tenantCall, logout, authRefresh, authMode, autoRefresh, configToken,
                 now, ticks, refreshPromise, episode, nextEp, refreshCalls, req>>

\* Baasix.clearTenant(): updateConfig, then storage.remove is called
ClearTenant ==
  /\ nreq = 1
  /\ tenantCall.pc = "idle" /\ logout.pc \in {"idle", "done"}
  /\ req[1].pc = "done"
  /\ tenantId' = None
  /\ store' = StorageRemove(store, TENANT)
  /\ UNCHANGED <<nreq, tenantCall, logout, authRefresh, authMode, autoRefresh, configToken,
                 now, ticks, refreshPromise, episode, nextEp, refreshCalls, req>>

\* AuthModule.switchTenant(tenantId), up to its first await:
\* client.post("/auth/switch-tenant") is called, a request() call like any
\* other; it is not combined with a running logout() or refreshToken()
SwitchTenant(r, t) ==
  /\ nreq = 1
  /\ tenantCall.pc = "idle" /\ logout.pc \in {"idle", "done"}
  /\ authRefresh.pc = "idle"
  /\ req[r].pc = "idle"
  /\ r <= nreq
  /\ \A q \in 1 .. r - 1 : req[q].pc # "idle"
  /\ tenantCall' = [tenantCall EXCEPT !.pc = "post", !.r = r, !.t = t]
  /\ req' = [req EXCEPT ![r] =
               BuildHeadersBegin(
                 [req[r] EXCEPT !.wasExpired = IsTokenExpired(ReadExpiry(store), now)],
                 FALSE)]
  /\ UNCHANGED <<nreq, logout, authRefresh, authMode, autoRefresh, configToken,
                 tenantId, store, now, ticks, refreshPromise, episode, nextEp,
                 refreshCalls>>

\* switchTenant() after each await: when the POST resolved, storeTokens()
\* writes the access token of the answer (jwt mode) and then its refresh
\* token, then storage.set(TENANT) is called, and after it TENANT_SWITCHED is
\* emitted; config.tenantId is not touched. When the POST was rejected the
\* error leaves switchTenant().
SwitchTenantContinue ==
  /\ tenantCall.pc \in {"post", "s1", "s2", "s3"}
  /\ tenantCall.pc = "post" => Done(tenantCall.r)
  /\ LET a == tenantCall
         ok == req[a.r].result = "ok"
     IN  /\ tenantCall' =
              CASE a.pc = "post" /\ ok -> [a EXCEPT !.pc = "s1"]
                [] a.pc = "post" -> IdleTenantCall
                [] a.pc = "s1" -> [a EXCEPT !.pc = "s2"]
                [] a.pc = "s2" -> [a EXCEPT !.pc = "s3"]
                [] OTHER -> IdleTenantCall
         /\ store' = CASE a.pc = "post" /\ ok /\ authMode = "jwt" ->
                           StorageSet(store, ACCESS_TOKEN, SwitchedToken)
                       [] a.pc = "s1" /\ authMode = "jwt" ->
                           StorageSet(store, REFRESH_TOKEN, SwitchedRefresh)
                       [] a.pc = "s2" -> StorageSet(store, TENANT, a.t)
                       [] OTHER -> store
  /\ UNCHANGED <<nreq, logout, authRefresh, authMode, autoRefresh, configToken,
                 tenantId, now, ticks, refreshPromise, episode, nextEp,
                 refreshCalls, req>>

\* logout(), up to its first await: client.get("/auth/logout")
Logout(r) ==
  /\ logout.pc = "idle" /\ authRefresh.pc = "idle" /\ tenantCall.pc = "idle"
  /\ req[r].pc = "idle"
  /\ r <= nreq
  /\ \A q \in 1 .. r - 1 : req[q].pc # "idle"
  /\ logout' = [pc |-> "get", r |-> r]
  /\ req' = [req EXCEPT ![r] =
               BuildHeadersBegin(
                 [req[r] EXCEPT !.wasExpired = IsTokenExpired(ReadExpiry(store), now)],
                 FALSE)]
  /\ UNCHANGED <<nreq, authRefresh, authMode, autoRefresh, configToken, tenantId, tenantCall, store, now, ticks,
                 refreshPromise, episode, nextEp, refreshCalls>>

\* logout() after its GET settled either way, and clearAuth() after each
\* `await storage.remove(...)`: the next key is removed (the stored user is not
\* part of the model); after the last one the SIGNED_OUT event is emitted
LogoutContinue ==
  /\ logout.pc \in {"get", "c1", "c2", "c3", "c4", "c5"}
  /\ logout.pc = "get" => Done(logout.r)
  /\ LET next == [get |-> "c1", c1 |-> "c2", c2 |-> "c3", c3 |-> "c4",
                  c4 |-> "c5", c5 |-> "done"]
     IN  logout' = [logout EXCEPT !.pc = next[logout.pc]]
  /\ store' = CASE logout.pc = "get" -> StorageRemove(store, ACCESS_TOKEN)
               [] logout.pc = "c1" -> StorageRemove(store, REFRESH_TOKEN)
               [] logout.pc = "c2" -> StorageRemove(store, TOKEN_EXPIRY)
               [] logout.pc = "c4" -> StorageRemove(store, TENANT)
               [] OTHER -> store
  /\ UNCHANGED <<nreq, authRefresh, authMode, autoRefresh, configToken, tenantId, tenantCall, now, ticks,
                 refreshPromise, episode, nextEp, refreshCalls, req>>

\* Date.now() advances
Tick ==
  /\ ticks < MaxTicks
  /\ nreq = 1
  /\ ticks' = ticks + 1
  /\ now' = now + TickMs
  /\ UNCHANGED <<nreq, logout, authRefresh, authMode, autoRefresh, configToken, tenantId, tenantCall, store,
                 refreshPromise, episode, nextEp, refreshCalls, req>>

\* the credential store a client starts with: empty, or the tokens of an
\* earlier login (refresh token and expiry optional; the expiry within the
\* 60 s buffer, or entering it at the first advance of the clock)
InitialStores ==
  {EmptyObj} \cup
  { Spread(Spread((ACCESS_TOKEN :> InitialToken), rt), ex) :
      rt \in {EmptyObj, (REFRESH_TOKEN :> InitialRefresh)},
      ex \in {EmptyObj,
              (TOKEN_EXPIRY :> NumToString(StartTime + 30 * 1000)),
              (TOKEN_EXPIRY :> NumToString(StartTime + BufferTime + TickMs))} }
  \cup
  \* ... and the tenant a switchTenant() stored
  { Spread(Spread((ACCESS_TOKEN :> InitialToken), (REFRESH_TOKEN :> InitialRefresh)),
           (TENANT :> TenantId)) }

HttpInit ==
  \* one call: every configuration, every option, an advancing clock;
  \* concurrent calls: the default configuration (jwt, autoRefresh, no static
  \* token, no tenant), authenticated calls without caller options, answered
  \* 200 or 401
  /\ authMode \in {"jwt", "cookie"}
  /\ autoRefresh \in BOOLEAN
  /\ configToken \in {None, StaticToken}
  /\ tenantId \in {None, TenantId}
  /\ store \in InitialStores
  /\ now = StartTime
  /\ ticks = 0
  /\ refreshPromise = 0
  /\ episode = [e \in Episodes |-> IdleEpisode]
  /\ nextEp = 0
  /\ refreshCalls = 0
  /\ req = [r \in Reqs |-> IdleRequest]
  /\ nreq \in 1 .. MaxReq
  /\ logout = [pc |-> "idle", r |-> 0]
  /\ authRefresh = IdleAuthRefresh
  /\ tenantCall = IdleTenantCall
  /\ nreq > 1 => /\ authMode = "jwt" /\ autoRefresh
                 /\ configToken = None /\ tenantId = None

\* ================================================================= realtime
Collections == {"products", "orders"}
ExecIds == {"42"}
CallbackIds == 1 .. MaxCallbacks
ExecCallbackIds == 1 .. MaxExecCallbacks
SocketIds == 1 .. MaxSockets

VARIABLES
  socket,             \* RealtimeModule.socket: 0 (null) or the current handle
  socks,              \* every transport handle: its state, the rooms the server
                      \* holds for it, its listeners per collection event channel
  nsock,              \* handles created so far
  subscriptions,      \* RealtimeModule.subscriptions: collection -> callback ids
  workflowCallbacks,  \* RealtimeModule.workflowCallbacks: execution id -> callbacks
  reconnecting,       \* RealtimeModule.reconnecting
  connectionPromise,  \* RealtimeModule.connectionPromise: "none" or "pending"
  awaited,            \* the handle whose acknowledgment settles the pending
                      \* promise, 0 while getAuthToken() is awaited
  authToken,          \* the token getAuthToken() read for the attempt
  handles,            \* unsubscribe closures handed out: <<collection, callbackId>>
  execHandles,        \* unsubscribe closures of executions: <<id, callback>>
  nextCb,             \* callback ids generated so far
  nextExecCb,         \* execution callbacks passed so far
  reconnects,         \* reconnects reported so far
  emitted,            \* messages socket.emit sent in the last step
  delivered,          \* invocations of each callback in the last step
  lastEvent,          \* collection of the inbound event of the last step, or None
  prevSubscribed,     \* collections in the registry at the last disconnect()
                      \* and not subscribed since
  callers,            \* connect() calls awaiting connectionPromise
  made,               \* handles created since the first of them was made
  settledCallers,     \* connect() calls resolved / rejected in the last step
  raised,             \* callbacks that raised an error in the last step
  calledHandle,       \* the unsubscribe closure called in the last step:
                      \* <<collection, callbackId>>, or <<>>
  notice,             \* argument of notifyConnectionChange in the last step:
                      \* "true", "false", or "none" when it was not called
  tornDown,           \* disconnect() has returned and connect() was not
                      \* called since
  connectionCallbacks, \* RealtimeModule.connectionCallbacks: the listeners
                      \* 1 .. connectionCallbacks, in the order they were added
  notified,           \* the listeners notifyConnectionChange invoked in the
                      \* last step, and whether the last of them raised
  channel             \* the RealtimeChannel: fn, its unsubscribeFn (<<>> for
                      \* null), and mine, the callbacks its subscribe() calls
                      \* registered

rtVars == <<socket, socks, nsock, subscriptions, workflowCallbacks, reconnecting,
            connectionPromise, awaited, authToken, handles, execHandles, nextCb,
            nextExecCb, reconnects, emitted, delivered, lastEvent, prevSubscribed,
            tornDown,
            callers, made, settledCallers, raised, calledHandle,
            notice, connectionCallbacks, notified, channel>>

NoListeners == [c \in Collections |-> 0]
NoDelivery == [i \in CallbackIds |-> 0]
NoMessages == [subscribe |-> [c \in Collections |-> 0],
               unsubscribe |-> [c \in Collections |-> 0],
               join |-> 0]

\* state: "unused", "connecting" (created, connect() called), "connected",
\* "down" (disconnected or failed, auto-reconnect armed), "retrying" (a reconnect
\* attempt is running), "closed" (torn down by socket.disconnect())
UnusedSocket == [state |-> "unused", rooms |-> {}, listeners |-> NoListeners]

\* this.socket?.connected
SocketConnected == socket # 0 /\ socks[socket].state = "connected"

\* what every step that is no dispatch and sends nothing leaves behind
Quiet ==
  /\ emitted' = NoMessages /\ delivered' = NoDelivery /\ lastEvent' = None
  /\ raised' = {}

NoCallers == [resolved |-> 0, rejected |-> 0]

\* a step in which no connect() call is made or settles
Calm == settledCallers' = NoCallers /\ UNCHANGED <<callers, made>>

\* a step that is not the call of an unsubscribe closure
NoHandleCall == calledHandle' = <<>>

\* the RealtimeChannel of the behaviour is one on this collection
ChannelCollection == "products"

\* a RealtimeChannel that was not subscribed
NewChannel == [fn |-> <<>>, mine |-> {}]

\* a step that is no call of a method of the channel
NoChannelCall == UNCHANGED channel

NoneNotified == [called |-> 0, threw |-> FALSE]

\* callbacks handed to the module so far
Registrations == nextCb + nextExecCb + connectionCallbacks

\* a step that does not call notifyConnectionChange
Silent == notice' = "none" /\ notified' = NoneNotified /\ UNCHANGED connectionCallbacks

\* notifyConnectionChange(connected): forEach over the listeners in insertion
\* order; k = 0: no listener raises, k > 0: listener k raises, which ends the
\* forEach and leaves notifyConnectionChange with that error
NotifyConnectionChange(connected, k) ==
  /\ k \in 0 .. connectionCallbacks
  /\ notice' = connected
  /\ notified' = IF k = 0 THEN [called |-> connectionCallbacks, threw |-> FALSE]
                 ELSE [called |-> k, threw |-> TRUE]
  /\ UNCHANGED connectionCallbacks

\* onConnectionChange(callback)
OnConnectionChange ==
  /\ connectionCallbacks < MaxListeners /\ Registrations < MaxRegistrations
  /\ connectionCallbacks' = connectionCallbacks + 1
  /\ notice' = "none" /\ notified' = NoneNotified
  /\ settledCallers' = NoCallers /\ UNCHANGED <<callers, made>>
  /\ calledHandle' = <<>> /\ NoChannelCall
  /\ emitted' = NoMessages /\ delivered' = NoDelivery /\ lastEvent' = None
  /\ raised' = {}
  /\ UNCHANGED <<socket, socks, nsock, subscriptions, workflowCallbacks,
                 reconnecting, connectionPromise, awaited, authToken, handles,
                 execHandles, nextCb, nextExecCb, reconnects, prevSubscribed,
                 tornDown>>

RealtimeInit ==
  /\ socket = 0
  /\ socks = [s \in SocketIds |-> UnusedSocket]
  /\ nsock = 0
  /\ subscriptions = EmptyObj
  /\ workflowCallbacks = EmptyObj
  /\ reconnecting = FALSE
  /\ connectionPromise = "none"
  /\ awaited = 0
  /\ authToken = None
  /\ handles = {}
  /\ execHandles = {}
  /\ nextCb = 0
  /\ nextExecCb = 0
  /\ reconnects = 0
  /\ emitted = NoMessages
  /\ delivered = NoDelivery
  /\ lastEvent = None
  /\ prevSubscribed = {}
  /\ tornDown = FALSE
  /\ callers = 0
  /\ made = 0
  /\ settledCallers = NoCallers
  /\ notice = "none"
  /\ connectionCallbacks = 0
  /\ notified = NoneNotified
  /\ channel = NewChannel
  /\ calledHandle = <<>>
  /\ raised = {}

\* subscribeOnServer(collection), as its effect on <<socks, emitted>>: the intent
\* is emitted on the current handle when it is connected, and the server then
\* holds the room for that connection
SubscribeOnServer(c, st) ==
  IF st.socket # 0 /\ st.socks[st.socket].state = "connected"
  THEN [st EXCEPT !.emitted.subscribe[c] = @ + 1,
                  !.socks[st.socket].rooms = @ \cup {c}]
  ELSE st

\* unsubscribeOnServer(collection)
UnsubscribeOnServer(c, st) ==
  IF st.socket # 0 /\ st.socks[st.socket].state = "connected"
  THEN [st EXCEPT !.emitted.unsubscribe[c] = @ + 1,
                  !.socks[st.socket].rooms = @ \ {c}]
  ELSE st

\* setupCollectionListeners(collection): one more listener on each event
\* channel of the collection, on the current handle
SetupCollectionListeners(c, st) ==
  IF st.socket = 0 THEN st
  ELSE [st EXCEPT !.socks[st.socket].listeners[c] = @ + 1]

\* removeCollectionListeners(collection): socket.off(eventName) drops every
\* listener of the channel
RemoveCollectionListeners(c, st) ==
  IF st.socket = 0 THEN st
  ELSE [st EXCEPT !.socks[st.socket].listeners[c] = 0]

\* the part of the state the helpers above work on
Transport == [socket |-> socket, socks |-> socks, emitted |-> NoMessages]

RECURSIVE ResubscribeEach(_, _)
ResubscribeEach(cs, st) ==
  IF cs = {} THEN st
  ELSE LET c == CHOOSE x \in cs : TRUE
       IN  ResubscribeEach(cs \ {c},
                           SetupCollectionListeners(c, SubscribeOnServer(c, st)))

\* resubscribeAll(): for every collection of the registry, subscribeOnServer and
\* setupCollectionListeners
ResubscribeAll(st) == ResubscribeEach(DOMAIN subscriptions, st)

\* connect() that does not look at connectionPromise: a call made while an
\* attempt is pending starts an attempt of its own
ConnectNoDedup ==
  /\ callers < MaxConnectCalls
  /\ Quiet /\ Silent /\ NoHandleCall /\ NoChannelCall
  /\ IF SocketConnected
     THEN /\ settledCallers' = [NoCallers EXCEPT !.resolved = 1]
          /\ UNCHANGED <<connectionPromise, awaited, authToken, callers, made>>
     ELSE /\ connectionPromise' = "pending"
          /\ awaited' = 0
          /\ authToken' = StorageGet(store, ACCESS_TOKEN)
          /\ callers' = callers + 1
          /\ made' = IF callers = 0 THEN 0 ELSE made
          /\ settledCallers' = NoCallers
  /\ UNCHANGED <<socket, socks, nsock, subscriptions, workflowCallbacks,
                 reconnecting, handles, execHandles, nextCb, nextExecCb,
                 reconnects, prevSubscribed>>
  /\ tornDown' = FALSE

\* connect(), up to `await this.getAuthToken()`: a call made while an attempt
\* is pending is handed the pending promise, a call made while connected
\* resolves at once, any other call starts an attempt
Connect ==
  /\ callers < MaxConnectCalls
  /\ Quiet /\ Silent /\ NoHandleCall /\ NoChannelCall
  /\ IF connectionPromise = "pending"
     THEN /\ callers' = callers + 1
          /\ settledCallers' = NoCallers
          /\ UNCHANGED <<connectionPromise, awaited, authToken, made>>
     ELSE IF SocketConnected
     THEN /\ settledCallers' = [NoCallers EXCEPT !.resolved = 1]
          /\ UNCHANGED <<connectionPromise, awaited, authToken, callers, made>>
     ELSE /\ connectionPromise' = "pending"
          /\ awaited' = 0
          /\ authToken' = StorageGet(store, ACCESS_TOKEN)
          /\ callers' = 1
          /\ made' = 0
          /\ settledCallers' = NoCallers
  /\ UNCHANGED <<socket, socks, nsock, subscriptions, workflowCallbacks,
                 reconnecting, handles, execHandles, nextCb, nextExecCb,
                 reconnects, prevSubscribed>>
  /\ tornDown' = FALSE

\* connect() after the token was read: the handle is created, the handlers are
\* registered and socket.connect() is called
ConnectOpen ==
  /\ connectionPromise = "pending"
  /\ awaited = 0
  /\ nsock < MaxSockets
  /\ nsock' = nsock + 1
  /\ socket' = nsock + 1
  /\ awaited' = nsock + 1
  /\ made' = made + 1
  /\ settledCallers' = NoCallers
  /\ Silent /\ NoHandleCall /\ NoChannelCall
  /\ UNCHANGED callers
  /\ socks' = [socks EXCEPT ![nsock + 1] = [UnusedSocket EXCEPT !.state = "connecting"]]
  /\ Quiet
  /\ UNCHANGED <<subscriptions, workflowCallbacks, reconnecting, connectionPromise,
                 authToken, handles, execHandles, nextCb, nextExecCb, reconnects,
                 prevSubscribed, tornDown>>

\* resolve() / reject() of the promise of the attempt that created handle s,
\* and the `finally` of connect(): every call awaiting the promise settles
SettleConnect(s, how) ==
  IF connectionPromise = "pending" /\ awaited = s
  THEN /\ connectionPromise' = "none"
       /\ awaited' = 0
       /\ callers' = 0
       /\ made' = 0
       /\ settledCallers' = [NoCallers EXCEPT ![how] = callers]
  ELSE /\ UNCHANGED <<connectionPromise, awaited>>
       /\ Calm

\* the transport acknowledges the connection: the "connect" handler, which
\* calls notifyConnectionChange(true) and then resolve(); resolve() is not
\* reached when a listener raises
TransportConnect(s, k) ==
  /\ socks[s].state \in {"connecting", "retrying"}
  /\ socks' = [socks EXCEPT ![s].state = "connected"]
  /\ reconnecting' = FALSE
  /\ NotifyConnectionChange("true", k)
  /\ IF k = 0 THEN SettleConnect(s, "resolved")
     ELSE UNCHANGED <<connectionPromise, awaited>> /\ Calm
  /\ NoHandleCall /\ NoChannelCall
  /\ Quiet
  /\ UNCHANGED <<socket, nsock, subscriptions, workflowCallbacks, authToken,
                 handles, execHandles, nextCb, nextExecCb, reconnects,
                 prevSubscribed, tornDown>>

\* the transport reports a connection error: the "connect_error" handler
TransportConnectError(s) ==
  /\ socks[s].state \in {"connecting", "retrying"}
  /\ socks' = [socks EXCEPT ![s].state = "down"]
  /\ IF reconnecting THEN UNCHANGED <<connectionPromise, awaited>> /\ Calm
     ELSE SettleConnect(s, "rejected")
  /\ Silent /\ NoHandleCall /\ NoChannelCall
  /\ Quiet
  /\ UNCHANGED <<socket, nsock, subscriptions, workflowCallbacks, reconnecting,
                 authToken, handles, execHandles, nextCb, nextExecCb, reconnects,
                 prevSubscribed, tornDown>>

\* a "disconnect" handler that clears the two registries as disconnect() does
TransportDisconnectClearing(s, k) ==
  /\ Calm /\ NotifyConnectionChange("false", k) /\ NoHandleCall /\ NoChannelCall
  /\ socks[s].state = "connected"
  /\ socks' = [socks EXCEPT ![s].state = "down", ![s].rooms = {}]
  /\ subscriptions' = EmptyObj
  /\ workflowCallbacks' = EmptyObj
  /\ Quiet
  /\ UNCHANGED <<socket, nsock, reconnecting,
                 connectionPromise, awaited, authToken, handles, execHandles,
                 nextCb, nextExecCb, reconnects, prevSubscribed, tornDown>>

\* the transport reports a disconnect: the "disconnect" handler; the server
\* drops the rooms of the connection
TransportDisconnect(s, k) ==
  /\ Calm /\ NotifyConnectionChange("false", k) /\ NoHandleCall /\ NoChannelCall
  /\ socks[s].state = "connected"
  /\ socks' = [socks EXCEPT ![s].state = "down", ![s].rooms = {}]
  /\ Quiet
  /\ UNCHANGED <<socket, nsock, subscriptions, workflowCallbacks, reconnecting,
                 connectionPromise, awaited, authToken, handles, execHandles,
                 nextCb, nextExecCb, reconnects, prevSubscribed, tornDown>>

\* the transport starts a reconnect attempt: the "reconnect_attempt" handler
TransportReconnectAttempt(s) ==
  /\ Calm /\ Silent /\ NoHandleCall /\ NoChannelCall
  /\ socks[s].state = "down"
  /\ reconnects < MaxReconnects
  /\ socks' = [socks EXCEPT ![s].state = "retrying"]
  /\ reconnecting' = TRUE
  /\ Quiet
  /\ UNCHANGED <<socket, nsock, subscriptions, workflowCallbacks,
                 connectionPromise, awaited, authToken, handles, execHandles,
                 nextCb, nextExecCb, reconnects, prevSubscribed, tornDown>>

\* the transport reports a successful reconnect: the "reconnect" handler
TransportReconnect(s, k) ==
  /\ Calm /\ NotifyConnectionChange("true", k) /\ NoHandleCall /\ NoChannelCall
  /\ socks[s].state = "retrying"
  /\ reconnects < MaxReconnects
  /\ reconnects' = reconnects + 1
  /\ reconnecting' = FALSE
  /\ LET st == ResubscribeAll(
                 [Transport EXCEPT !.socks[s].state = "connected"])
     IN  socks' = st.socks /\ emitted' = st.emitted
  /\ delivered' = NoDelivery /\ raised' = {}
  /\ lastEvent' = None
  /\ UNCHANGED <<socket, nsock, subscriptions, workflowCallbacks,
                 connectionPromise, awaited, authToken, handles, execHandles,
                 nextCb, nextExecCb, prevSubscribed, tornDown>>

\* disconnect() that keeps the two registries
DisconnectKeepRegistry(echo) ==
  /\ Calm /\ NoHandleCall /\ NoChannelCall
  /\ echo => SocketConnected
  /\ IF echo THEN NotifyConnectionChange("false", 0) ELSE Silent
  /\ IF socket # 0
     THEN socks' = [socks EXCEPT ![socket] = [UnusedSocket EXCEPT !.state = "closed"]]
     ELSE UNCHANGED socks
  /\ socket' = 0
  /\ prevSubscribed' = DOMAIN subscriptions
  /\ tornDown' = TRUE
  /\ Quiet
  /\ UNCHANGED <<nsock, subscriptions, workflowCallbacks, reconnecting,
                 connectionPromise, awaited, authToken, handles, execHandles,
                 nextCb, nextExecCb, reconnects>>

\* disconnect(): the handle is torn down and both registries are cleared;
\* echo: the transport emits its "disconnect" event from within
\* socket.disconnect() on a connected handle, which runs the disconnect handler
Disconnect(echo) ==
  /\ Calm /\ NoHandleCall /\ NoChannelCall
  /\ echo => SocketConnected
  /\ IF echo THEN NotifyConnectionChange("false", 0) ELSE Silent
  /\ IF socket # 0
     THEN socks' = [socks EXCEPT ![socket] = [UnusedSocket EXCEPT !.state = "closed"]]
     ELSE UNCHANGED socks
  /\ socket' = 0
  /\ subscriptions' = EmptyObj
  /\ workflowCallbacks' = EmptyObj
  /\ prevSubscribed' = DOMAIN subscriptions
  /\ tornDown' = TRUE
  /\ Quiet
  /\ UNCHANGED <<nsock, reconnecting, connectionPromise, awaited, authToken,
                 handles, execHandles, nextCb, nextExecCb, reconnects>>

\* subscribe(collection, callback) that subscribes on the server on every call
SubscribeNoRefCount(c) ==
  /\ Calm /\ Silent /\ NoHandleCall
  /\ nextCb < MaxCallbacks /\ Registrations < MaxRegistrations
  /\ nextCb' = nextCb + 1
  /\ LET id == nextCb + 1
         st == SetupCollectionListeners(c, SubscribeOnServer(c, Transport))
     IN  /\ subscriptions' =
               IF c \in DOMAIN subscriptions
               THEN [subscriptions EXCEPT ![c] = @ \cup {id}]
               ELSE (c :> {id}) @@ subscriptions
         /\ handles' = handles \cup {<<c, id>>}
         /\ socks' = st.socks
         /\ emitted' = st.emitted
  /\ delivered' = NoDelivery /\ raised' = {}
  /\ lastEvent' = None
  /\ prevSubscribed' = prevSubscribed \ {c}
  /\ UNCHANGED tornDown
  /\ UNCHANGED <<socket, nsock, workflowCallbacks, reconnecting, connectionPromise,
                 awaited, authToken, execHandles, nextExecCb, reconnects>>

\* subscribe(collection, callback): the callback gets a fresh id; the first
\* callback of a collection creates the record, subscribes on the server and
\* sets up the listeners
Subscribe(c) ==
  /\ Calm /\ Silent /\ NoHandleCall
  /\ nextCb < MaxCallbacks /\ Registrations < MaxRegistrations
  /\ nextCb' = nextCb + 1
  /\ LET id == nextCb + 1
         st == IF c \in DOMAIN subscriptions THEN Transport
               ELSE SetupCollectionListeners(c, SubscribeOnServer(c, Transport))
     IN  /\ subscriptions' =
               IF c \in DOMAIN subscriptions
               THEN [subscriptions EXCEPT ![c] = @ \cup {id}]
               ELSE (c :> {id}) @@ subscriptions
         /\ handles' = handles \cup {<<c, id>>}
         /\ socks' = st.socks
         /\ emitted' = st.emitted
  /\ delivered' = NoDelivery /\ raised' = {}
  /\ lastEvent' = None
  /\ prevSubscribed' = prevSubscribed \ {c}
  /\ UNCHANGED tornDown
  /\ UNCHANGED <<socket, nsock, workflowCallbacks, reconnecting, connectionPromise,
                 awaited, authToken, execHandles, nextExecCb, reconnects>>

\* an unsubscribe closure that drops the record of its collection, whatever
\* callbacks it holds
UnsubscribeAll(h) ==
  /\ Calm /\ Silent
  /\ calledHandle' = h
  /\ h \in handles
  /\ LET c == h[1]
         st == IF c \in DOMAIN subscriptions
               THEN RemoveCollectionListeners(c, UnsubscribeOnServer(c, Transport))
               ELSE Transport
     IN  /\ subscriptions' = StorageRemove(subscriptions, c)
         /\ socks' = st.socks
         /\ emitted' = st.emitted
  /\ delivered' = NoDelivery /\ raised' = {}
  /\ lastEvent' = None
  /\ UNCHANGED <<socket, nsock, workflowCallbacks, reconnecting, connectionPromise,
                 awaited, authToken, handles, execHandles, nextCb, nextExecCb,
                 reconnects, prevSubscribed, tornDown>>

\* the unsubscribe closure subscribe() returned for <<collection, callbackId>>
Unsubscribe(h) ==
  /\ Calm /\ Silent
  /\ calledHandle' = h
  /\ h \in handles
  /\ LET c == h[1]
         id == h[2]
         last == c \in DOMAIN subscriptions /\ subscriptions[c] \ {id} = {}
         st == IF last
               THEN RemoveCollectionListeners(c, UnsubscribeOnServer(c, Transport))
               ELSE Transport
     IN  /\ subscriptions' =
               IF c \notin DOMAIN subscriptions THEN subscriptions
               ELSE IF last THEN StorageRemove(subscriptions, c)
               ELSE [subscriptions EXCEPT ![c] = @ \ {id}]
         /\ socks' = st.socks
         /\ emitted' = st.emitted
  /\ delivered' = NoDelivery /\ raised' = {}
  /\ lastEvent' = None
  /\ UNCHANGED <<socket, nsock, workflowCallbacks, reconnecting, connectionPromise,
                 awaited, authToken, handles, execHandles, nextCb, nextExecCb,
                 reconnects, prevSubscribed, tornDown>>

\* subscribe(collection, callback) called by the application itself
SubscribeDirect(c) == Subscribe(c) /\ NoChannelCall

\* an unsubscribe closure the application holds: the one a channel got is
\* private to the channel
UnsubscribeDirect(h) ==
  /\ h[2] \notin channel.mine
  /\ Unsubscribe(h) /\ NoChannelCall

\* RealtimeChannel.subscribe(): realtime.subscribe(collection, dispatcher), and
\* the closure it returns is assigned to unsubscribeFn
ChannelSubscribe ==
  /\ Subscribe(ChannelCollection)
  /\ channel' = [fn |-> <<ChannelCollection, nextCb + 1>>,
                 mine |-> channel.mine \cup {nextCb + 1}]

\* RealtimeChannel.unsubscribe(): unsubscribeFn, when there is one, is called
\* and set to null
ChannelUnsubscribe ==
  IF channel.fn # <<>>
  THEN /\ Unsubscribe(channel.fn)
       /\ channel' = [channel EXCEPT !.fn = <<>>]
  ELSE /\ Calm /\ Silent /\ NoHandleCall /\ NoChannelCall /\ Quiet
       /\ UNCHANGED <<socket, socks, nsock, subscriptions, workflowCallbacks,
                      reconnecting, connectionPromise, awaited, authToken,
                      handles, execHandles, nextCb, nextExecCb, reconnects,
                      prevSubscribed, tornDown>>

\* callbacks.forEach without the try/catch: the first callback that raises
\* ends the iteration
RECURSIVE InvokeEachNoCatch(_, _, _)
InvokeEachNoCatch(cbs, throwers, invoked) ==
  IF cbs = {} THEN invoked
  ELSE LET i == CHOOSE x \in cbs : \A y \in cbs : x <= y
       IN  IF i \in throwers THEN invoked \cup {i}
           ELSE InvokeEachNoCatch(cbs \ {i}, throwers, invoked \cup {i})

\* subscription.callbacks.forEach(try { callback(payload) } catch { log }), in
\* insertion order: the callbacks invoked
RECURSIVE InvokeEach(_, _, _)
InvokeEach(cbs, throwers, invoked) ==
  IF cbs = {} THEN invoked
  ELSE LET i == CHOOSE x \in cbs : \A y \in cbs : x <= y
       IN  InvokeEach(cbs \ {i}, throwers, invoked \cup {i})

\* handleCollectionEvent(collection, payload) when the callbacks of `throwers`
\* raise: the callbacks invoked
HandleCollectionEvent(c, throwers) ==
  IF c \in DOMAIN subscriptions THEN InvokeEach(subscriptions[c], throwers, {})
  ELSE {}

\* the server sends an event of collection c to a connection that holds its
\* room: every listener of the channel on that handle runs
\* handleCollectionEvent, which invokes every callback of the record
InboundEvent(s, c, throwers) ==
  /\ Calm /\ Silent /\ NoHandleCall /\ NoChannelCall
  /\ socks[s].state = "connected"
  /\ c \in socks[s].rooms
  /\ throwers \subseteq (IF c \in DOMAIN subscriptions THEN subscriptions[c] ELSE {})
  /\ delivered' = [i \in CallbackIds |->
                     IF i \in HandleCollectionEvent(c, throwers)
                     THEN socks[s].listeners[c] ELSE 0]
  /\ raised' = throwers
  /\ lastEvent' = c
  /\ emitted' = NoMessages
  /\ UNCHANGED <<socket, socks, nsock, subscriptions, workflowCallbacks,
                 reconnecting, connectionPromise, awaited, authToken, handles,
                 execHandles, nextCb, nextExecCb, reconnects, prevSubscribed, tornDown>>

\* an inbound event of collection c during whose dispatch callback i calls the
\* unsubscribe closure of callback j of the same collection (j = i: it removes
\* itself). callbacks.forEach iterates the live Map in insertion order: an
\* entry deleted before it is reached is not visited. Every further listener
\* of the channel runs handleCollectionEvent on the registry as the first run
\* left it.
InboundEventUnsubscribing(s, c, i, j) ==
  /\ Calm /\ Silent
  /\ socks[s].state = "connected"
  /\ c \in socks[s].rooms
  /\ socks[s].listeners[c] >= 1
  /\ c \in DOMAIN subscriptions
  /\ i \in subscriptions[c] /\ j \in subscriptions[c]
  /\ j \notin channel.mine
  /\ LET cbs == subscriptions[c]
         first == IF j > i THEN cbs \ {j} ELSE cbs
         rest == cbs \ {j}
         n == socks[s].listeners[c]
         last == rest = {}
         st == IF last
               THEN RemoveCollectionListeners(c, UnsubscribeOnServer(c, Transport))
               ELSE Transport
     IN  /\ delivered' = [k \in CallbackIds |->
                            (IF k \in first THEN 1 ELSE 0)
                            + (IF k \in rest THEN n - 1 ELSE 0)]
         /\ subscriptions' = IF last THEN StorageRemove(subscriptions, c)
                             ELSE [subscriptions EXCEPT ![c] = rest]
         /\ socks' = st.socks
         /\ emitted' = st.emitted
  /\ calledHandle' = <<c, j>> /\ NoChannelCall
  /\ raised' = {}
  /\ lastEvent' = c
  /\ UNCHANGED <<socket, nsock, workflowCallbacks, reconnecting, connectionPromise,
                 awaited, authToken, handles, execHandles, nextCb, nextExecCb,
                 reconnects, prevSubscribed, tornDown>>

\* subscribeToExecution(executionId, callback): the join intent is emitted when
\* connected, the callback is added to the set of the id
SubscribeToExecution(x) ==
  /\ Calm /\ Silent /\ NoHandleCall /\ NoChannelCall
  /\ nextExecCb < MaxExecCallbacks /\ Registrations < MaxRegistrations
  /\ nextExecCb' = nextExecCb + 1
  /\ emitted' = IF SocketConnected THEN [NoMessages EXCEPT !.join = 1]
                ELSE NoMessages
  /\ workflowCallbacks' =
       IF x \in DOMAIN workflowCallbacks
       THEN [workflowCallbacks EXCEPT ![x] = @ \cup {nextExecCb + 1}]
       ELSE (x :> {nextExecCb + 1}) @@ workflowCallbacks
  /\ execHandles' = execHandles \cup {<<x, nextExecCb + 1>>}
  /\ delivered' = NoDelivery /\ raised' = {}
  /\ lastEvent' = None
  /\ UNCHANGED <<socket, socks, nsock, subscriptions, reconnecting,
                 connectionPromise, awaited, authToken, handles, nextCb,
                 reconnects, prevSubscribed, tornDown>>

\* an unsubscribe closure that leaves the emptied record of the id in place
UnsubscribeExecutionKeepRecord(h) ==
  /\ Calm /\ Silent /\ NoHandleCall /\ NoChannelCall
  /\ h \in execHandles
  /\ workflowCallbacks' =
       IF h[1] \notin DOMAIN workflowCallbacks THEN workflowCallbacks
       ELSE [workflowCallbacks EXCEPT ![h[1]] = @ \ {h[2]}]
  /\ Quiet
  /\ UNCHANGED <<socket, socks, nsock, subscriptions, reconnecting,
                 connectionPromise, awaited, authToken, handles, execHandles,
                 nextCb, nextExecCb, reconnects, prevSubscribed, tornDown>>

\* the unsubscribe closure subscribeToExecution() returned
UnsubscribeExecution(h) ==
  /\ Calm /\ Silent /\ NoHandleCall /\ NoChannelCall
  /\ h \in execHandles
  /\ workflowCallbacks' =
       IF h[1] \notin DOMAIN workflowCallbacks THEN workflowCallbacks
       ELSE IF workflowCallbacks[h[1]] \ {h[2]} = {}
            THEN StorageRemove(workflowCallbacks, h[1])
            ELSE [workflowCallbacks EXCEPT ![h[1]] = @ \ {h[2]}]
  /\ Quiet
  /\ UNCHANGED <<socket, socks, nsock, subscriptions, reconnecting,
                 connectionPromise, awaited, authToken, handles, execHandles,
                 nextCb, nextExecCb, reconnects, prevSubscribed, tornDown>>

\* ========================================================= specifications
vars == <<httpVars, rtVars>>

\* the request pipeline and the refresh coordinator
Next ==
  \/ \E r \in Reqs, skip \in BOOLEAN, fo \in CallerOptions :
       StartRequest(r, skip, fo) /\ UNCHANGED rtVars
  \/ \E r \in Reqs :
       ExpiryChecked(r) /\ UNCHANGED rtVars
  \/ \E r \in Reqs :
       ProactiveSettled(r) /\ UNCHANGED rtVars
  \/ \E r \in Reqs :
       TokenRead(r) /\ UNCHANGED rtVars
  \/ \E r \in Reqs, status \in Statuses :
       Responded(r, status) /\ UNCHANGED rtVars
  \/ \E r \in Reqs, skip \in BOOLEAN, progress \in BOOLEAN :
       StartUpload(r, skip, progress) /\ UNCHANGED rtVars
  \/ \E r \in Reqs, status \in Statuses :
       UploadResponded(r, status) /\ UNCHANGED rtVars
  \/ \E r \in Reqs :
       NetworkFailed(r) /\ UNCHANGED rtVars
  \/ \E r \in Reqs :
       ReactiveSettled(r) /\ UNCHANGED rtVars
  \/ \E e \in Episodes :
       RefreshSend(e) /\ UNCHANGED rtVars
  \/ \E e \in Episodes, err \in {"REFRESH_FAILED", "NETWORK_ERROR"} :
       RefreshRejected(e, err) /\ UNCHANGED rtVars
  \/ \E e \in Episodes, withRefresh \in BOOLEAN, expiresIn \in ExpiresInChoices :
       RefreshAnswered(e, withRefresh, expiresIn) /\ UNCHANGED rtVars
  \/ \E e \in Episodes :
       RefreshStore(e) /\ UNCHANGED rtVars
  \/ \E e \in Episodes, applied \in BOOLEAN :
       StorageRejected(e, applied) /\ UNCHANGED rtVars
  \/ \E r \in Reqs :
       RequestTimeout(r) /\ UNCHANGED rtVars
  \/ \E r \in Reqs :
       Logout(r) /\ UNCHANGED rtVars
  \/ LogoutContinue /\ UNCHANGED rtVars
  \/ \E r \in Reqs :
       AuthRefresh(r) /\ UNCHANGED rtVars
  \/ AuthRefreshContinue /\ UNCHANGED rtVars
  \/ \E t \in Tenants :
       SetTenant(t) /\ UNCHANGED rtVars
  \/ ClearTenant /\ UNCHANGED rtVars
  \/ \E r \in Reqs, t \in Tenants :
       SwitchTenant(r, t) /\ UNCHANGED rtVars
  \/ SwitchTenantContinue /\ UNCHANGED rtVars
  \/ Tick /\ UNCHANGED rtVars

Init == HttpInit /\ RealtimeInit

Spec == Init /\ [][Next]_vars

\* the client the realtime module runs with: jwt mode with autoRefresh, a
\* stored session and a static token beside it (the module reads nothing else
\* of the client's configuration than the store and the base URL)
RealtimeClientInit ==
  /\ HttpInit
  /\ nreq = 1
  /\ authMode = "jwt" /\ autoRefresh /\ tenantId = None
  /\ store = Spread((ACCESS_TOKEN :> InitialToken), (REFRESH_TOKEN :> InitialRefresh))
  /\ configToken = StaticToken

NextRT ==
  \/ Connect /\ UNCHANGED httpVars
  \/ OnConnectionChange /\ UNCHANGED httpVars
  \/ ConnectOpen /\ UNCHANGED httpVars
  \/ \E s \in SocketIds, k \in 0 .. MaxListeners :
       TransportConnect(s, k) /\ UNCHANGED httpVars
  \/ \E s \in SocketIds :
       TransportConnectError(s) /\ UNCHANGED httpVars
  \/ \E s \in SocketIds, k \in 0 .. MaxListeners :
       TransportDisconnect(s, k) /\ UNCHANGED httpVars
  \/ \E s \in SocketIds :
       TransportReconnectAttempt(s) /\ UNCHANGED httpVars
  \/ \E s \in SocketIds, k \in 0 .. MaxListeners :
       TransportReconnect(s, k) /\ UNCHANGED httpVars
  \/ \E echo \in BOOLEAN :
       Disconnect(echo) /\ UNCHANGED httpVars
  \/ \E c \in Collections :
       SubscribeDirect(c) /\ UNCHANGED httpVars
  \/ \E h \in Collections \X CallbackIds :
       UnsubscribeDirect(h) /\ UNCHANGED httpVars
  \/ ChannelSubscribe /\ UNCHANGED httpVars
  \/ ChannelUnsubscribe /\ UNCHANGED httpVars
  \/ \E s \in SocketIds, c \in Collections, throwers \in SUBSET CallbackIds :
       InboundEvent(s, c, throwers) /\ UNCHANGED httpVars
  \/ \E s \in SocketIds, c \in Collections, i \in CallbackIds, j \in CallbackIds :
       InboundEventUnsubscribing(s, c, i, j) /\ UNCHANGED httpVars
  \/ \E x \in ExecIds :
       SubscribeToExecution(x) /\ UNCHANGED httpVars
  \/ \E h \in ExecIds \X ExecCallbackIds :
       UnsubscribeExecution(h) /\ UNCHANGED httpVars

\* the connection state machine and the two registries
InitRT == RealtimeClientInit /\ RealtimeInit

SpecRT == InitRT /\ [][NextRT]_vars

\* ===================================================================== claims
PendingEpisodes == {e \in Episodes : episode[e].pc \notin {"unused", "ok", "fail"}}

\* C1 (as stated): when every request() call of the behaviour (jwt mode,
\* autoRefresh, authentication not skipped) was made while the stored expiry was
\* within the buffer, at most one call to the refresh endpoint is issued in total.
C1_AtMostOneRefreshInTotal ==
  (/\ authMode = "jwt" /\ autoRefresh
   /\ \A r \in Reqs : req[r].pc # "idle" => req[r].wasExpired /\ ~req[r].skipAuth)
  => refreshCalls <= 1

\* C1 (amended): at most one refresh is pending at any time and it is the one
\* refreshPromise holds; every call waiting for an unsettled refresh waits for that
\* one; the refresh endpoint is called at most once per refresh episode.
C1_OneRefreshPerEpisode ==
  /\ Cardinality(PendingEpisodes) <= 1
  /\ PendingEpisodes = (IF refreshPromise = 0 THEN {} ELSE {refreshPromise})
  /\ refreshCalls <= nextEp
  /\ \A r \in Reqs :
       (req[r].pc \in {"bh_wait", "r_wait"} /\ ~Settled(req[r].ep))
         => req[r].ep = refreshPromise

\* two calls wait for the same refresh, whose call to the endpoint is in flight
C1_Witness ==
  \E r1, r2 \in Reqs :
    /\ r1 # r2
    /\ req[r1].ep # 0
    /\ req[r1].ep = req[r2].ep
    /\ episode[req[r1].ep].pc = "fetch"
    /\ refreshCalls = 1

\* C2 (as stated): a call answered 401 and then 200 on the retry resolves after
\* exactly two attempts and exactly one refresh call, whatever the stored expiry.
C2_ExactlyOneRefresh ==
  \A r \in Reqs :
    req[r].answers = <<401, 200>>
      => /\ Done(r) /\ req[r].result = "ok"
         /\ req[r].attempts = 2
         /\ req[r].refreshes = 1

\* C2 (amended): a call answered 401 and then 200 on the retry resolves after
\* exactly two attempts; the refresh calls awaited on its behalf are the one of
\* the 401 path plus at most one for each header build that found the stored
\* expiry within the buffer, so exactly one when no header build did.
C2_RetryAfterRefresh ==
  \A r \in Reqs :
    req[r].answers = <<401, 200>>
      => /\ Done(r) /\ req[r].result = "ok"
         /\ req[r].attempts = 2
         /\ req[r].refreshes >= 1
         /\ req[r].refreshes <= 1 + req[r].proCalls
         /\ req[r].proCalls <= 2

C2_Witness ==
  \E r \in Reqs : req[r].answers = <<401, 200>> /\ req[r].refreshes = 1

\* C3: a call whose original attempt and retry are both answered 401 has made
\* exactly two attempts, has failed with status 401 and has fired onAuthError
\* exactly once.
C3_SecondUnauthorized ==
  \A r \in Reqs :
    /\ req[r].attempts <= 2
    /\ req[r].answers = <<401, 401>>
         => /\ Done(r) /\ req[r].result = "error" /\ req[r].status = 401
            /\ req[r].attempts = 2
            /\ req[r].authErrors = 1

C3_Witness ==
  \E r \in Reqs : req[r].answers = <<401, 401>> /\ Done(r)

\* the bearer token of the attempt in flight, None when it carries none
BearerSent(r) ==
  IF "Authorization" \in DOMAIN req[r].sent
  THEN req[r].sent["Authorization"][2] ELSE None

\* C8 (as stated), for a call running alone without a static token: with the
\* stored expiry within the buffer when the call is made, its first attempt is
\* sent after a refresh was awaited; after a successful refresh it carries the
\* access token that refresh wrote, after a failed one the token still stored.
C8_ProactiveRefresh ==
  \A r \in Reqs :
    (/\ nreq = 1 /\ authMode = "jwt" /\ autoRefresh /\ configToken = None
     /\ ~req[r].skipAuth /\ req[r].wasExpired
     /\ req[r].phase = 1 /\ req[r].pc = "fetch")
    => /\ req[r].proactive # "no"
       /\ req[r].proactive = "ok" => BearerSent(r) = NewToken(nextEp)
       /\ req[r].proactive = "fail" => BearerSent(r) = StorageGet(store, ACCESS_TOKEN)

\* every field of the tokens object of episode e has been written
WritesDone(e) ==
  LET ep == episode[e] IN
  \/ ep.pc = "k3"
  \/ ep.pc = "k2" /\ ep.expiresAt = 0
  \/ ep.pc = "k1" /\ ep.refreshToken = None /\ ep.expiresAt = 0

\* C9 (as stated): once a refresh has written its Token Pair, the store reads
\* back exactly that pair: its access token, its refresh token or none, its
\* expiry instant or none.
C9_RoundTrip ==
  \A e \in Episodes :
    WritesDone(e)
      => /\ StorageGet(store, ACCESS_TOKEN) = episode[e].token
         /\ StorageGet(store, REFRESH_TOKEN) = episode[e].refreshToken
         /\ IF episode[e].expiresAt = 0
            THEN ReadExpiry(store) = <<>>
            ELSE ParseInt(ReadExpiry(store)) = episode[e].expiresAt

\* C10 (as stated): the headers of every attempt are the headers buildHeaders
\* returned, overridden name by name by the caller's headers.
C10_HeadersMerged ==
  \A r \in Reqs :
    req[r].pc = "fetch"
      => req[r].sent = Spread(req[r].hdrs, CallerHeaders(req[r].fo))

\* ------------------------------------------------------------------ C11
\* C11: once the timeout of a call has expired the call has no network attempt
\* left in flight: the attempt, original or retry, was cancelled and the call
\* failed with Timeout.
C11_TimeoutCancels ==
  \A r \in Reqs : req[r].timer = "fired" => req[r].pc # "fetch"

\* ------------------------------------------------------------------ C4
CallbackCount(c) ==
  IF c \in DOMAIN subscriptions THEN Cardinality(subscriptions[c]) ELSE 0

\* C4: every inbound collection event is delivered exactly once to each
\* callback registered for its collection, whatever number of
\* disconnect/reconnect cycles came before.
C4_DeliveredOnce ==
  lastEvent # None =>
    \A i \in CallbackIds :
      (lastEvent \in DOMAIN subscriptions /\ i \in subscriptions[lastEvent])
        => delivered[i] = 1

\* ------------------------------------------------------------------ C5
\* C5: on a connected transport a step of subscribe() or of an unsubscribe
\* handle sends a "subscribe" intent for a collection exactly when the number
\* of its callbacks goes from 0 to 1, an "unsubscribe" intent exactly when it
\* goes from 1 to 0, and no message otherwise.
C5_RefCounted ==
  [][(SocketConnected /\ socket' = socket /\ reconnects' = reconnects) =>
       \A c \in Collections :
         /\ emitted'.subscribe[c] =
              IF CallbackCount(c) = 0 /\ CallbackCount(c)' = 1 THEN 1 ELSE 0
         /\ emitted'.unsubscribe[c] =
              IF CallbackCount(c) = 1 /\ CallbackCount(c)' = 0 THEN 1 ELSE 0]_vars

\* two callbacks were registered for one collection on a connected transport
\* and the removal of the last of them has just sent the unsubscribe intent
C5_Witness ==
  /\ SocketConnected
  /\ {<<"products", 1>>, <<"products", 2>>} \subseteq handles
  /\ "products" \notin DOMAIN subscriptions
  /\ emitted.unsubscribe["products"] = 1
  /\ prevSubscribed = {}

\* ------------------------------------------------------------------ C6
\* C6: whenever a transport reports a successful reconnect, a fresh "subscribe"
\* intent is sent for every collection of the registry and the callback sets
\* are unchanged.
C6_ReplayOnReconnect ==
  [][reconnects' = reconnects + 1 =>
       /\ subscriptions' = subscriptions
       /\ \A c \in DOMAIN subscriptions : emitted'.subscribe[c] = 1]_vars

\* ------------------------------------------------------------------ C7
\* C7: disconnect() empties the Subscription Registry and the Execution Channel
\* Registry, and the first subscribe() for a collection that was subscribed
\* before the disconnect(), made on the connection a later connect() opened,
\* sends exactly one "subscribe" intent and leaves one listener per channel.
C7_DisconnectClears ==
  [][/\ (socket # 0 /\ socket' = 0) =>
          subscriptions' = EmptyObj /\ workflowCallbacks' = EmptyObj
     /\ \A c \in prevSubscribed :
          (SocketConnected /\ nextCb' = nextCb + 1 /\ <<c, nextCb'>> \in handles')
            => /\ emitted'.subscribe[c] = 1
               /\ socks'[socket].listeners[c] = 1]_vars

\* "products" was subscribed on the first handle, disconnect() tore it down,
\* connect() opened the second one and subscribe("products") has just run
C7_Witness ==
  /\ nsock = 2 /\ socket = 2 /\ SocketConnected
  /\ socks[1].state = "closed"
  /\ {<<"products", 1>>, <<"products", 2>>} \subseteq handles
  /\ "products" \in DOMAIN subscriptions /\ subscriptions["products"] = {2}
  /\ emitted.subscribe["products"] = 1

\* ------------------------------------------------------------------ C12
\* C12: while connect() calls await an attempt, that attempt has created at
\* most one transport handle; all of them settle in the same step and the same
\* way (all resolved or all rejected); and no step taken while Connected with
\* no attempt pending, a connect() call included, creates a handle.
C12_OneAttempt ==
  [][/\ made' <= 1
     /\ (callers' > 0) = (connectionPromise' = "pending")
     /\ callers' < callers =>
          /\ settledCallers'.resolved + settledCallers'.rejected = callers
          /\ settledCallers'.resolved = 0 \/ settledCallers'.rejected = 0
     /\ (SocketConnected /\ connectionPromise = "none") =>
          nsock' = nsock /\ connectionPromise' = "none"]_vars

\* two connect() calls made while the handle was connecting were resolved
\* together by the acknowledgment of the one handle they share
C12_Witness ==
  /\ settledCallers.resolved = 2
  /\ nsock = 1 /\ SocketConnected

\* ------------------------------------------------------------------ C13
\* the callbacks registered for collection c
Callbacks(c) == IF c \in DOMAIN subscriptions THEN subscriptions[c] ELSE {}

\* C13: the call of an unsubscribe handle removes the callback it was returned
\* for and no other callback of any collection; when that callback is not
\* registered (the handle was called before, also when the collection was
\* subscribed anew or disconnect() was called since) the call changes no
\* registry and sends no server message.
C13_OwnCallbackOnly ==
  [][calledHandle' # <<>> =>
       LET c == calledHandle'[1]
           id == calledHandle'[2]
       IN  /\ \A d \in Collections :
                Callbacks(d)' = IF d = c THEN Callbacks(d) \ {id} ELSE Callbacks(d)
           /\ workflowCallbacks' = workflowCallbacks
           /\ id \notin Callbacks(c) =>
                subscriptions' = subscriptions /\ emitted' = NoMessages]_vars

\* the handle of a callback that disconnect() had removed was called on a
\* connection opened afterwards
C13_Witness ==
  /\ calledHandle = <<"products", 1>>
  /\ "products" \in prevSubscribed
  /\ subscriptions = EmptyObj
  /\ SocketConnected

\* ------------------------------------------------------------------ C14
\* C14: an inbound collection event is delivered to every callback registered
\* for its collection, also to the callbacks that come after one that raised
\* an error.
C14_IsolatedCallbacks ==
  lastEvent # None =>
    \A i \in Callbacks(lastEvent) : delivered[i] >= 1

\* the first of two callbacks of a collection raised and the second one was
\* invoked all the same
C14_Witness ==
  /\ lastEvent = "products"
  /\ Callbacks("products") = {1, 2}
  /\ raised = {1}
  /\ delivered[2] >= 1

\* ------------------------------------------------------------------ C15
\* the access token, the refresh token, the expiry and the tenant are absent
CredentialsAbsent ==
  DOMAIN store \cap {ACCESS_TOKEN, REFRESH_TOKEN, TOKEN_EXPIRY, TENANT} = {}

\* C15: when logout() completes, the access token, the refresh token, the
\* expiry and the tenant are absent from the credential store, whatever was
\* stored before and however its GET /auth/logout ended.
C15_LogoutClears ==
  [][(logout.pc # "done" /\ logout'.pc = "done") => CredentialsAbsent']_vars

\* ------------------------------------------------------------------ C16
\* C16: a call made with skipAuth, or with autoRefresh disabled, never awaits
\* a refresh, makes at most one network attempt and surfaces a 401 answer as a
\* failure without retry and without the authentication-lost notification; an
\* attempt of a call made with skipAuth carries no bearer credential.
C16_NoRefreshWhenSkipped ==
  \A r \in Reqs :
    (req[r].pc # "idle" /\ (req[r].skipAuth \/ ~autoRefresh))
      => /\ req[r].pc \notin {"bh_wait", "r_wait"}
         /\ req[r].proCalls = 0 /\ req[r].refreshes = 0
         /\ req[r].attempts <= 1
         /\ req[r].answers = <<401>> =>
              /\ Done(r) /\ req[r].result = "error" /\ req[r].status = 401
              /\ req[r].authErrors = 0
         /\ (req[r].skipAuth /\ req[r].pc = "fetch") =>
              "Authorization" \notin DOMAIN req[r].sent

\* a call made with skipAuth while autoRefresh is enabled and a token is
\* stored was answered 401 and has failed
C16_Witness ==
  \E r \in Reqs :
    /\ req[r].skipAuth /\ autoRefresh /\ authMode = "jwt"
    /\ ACCESS_TOKEN \in DOMAIN store
    /\ req[r].answers = <<401>> /\ Done(r)

\* ------------------------------------------------------------------ C17
\* C17: in cookie mode no attempt carries an Authorization header and no
\* header build reads the stored expiry or token; the refresh call carries no
\* refresh token; a request() call (autoRefresh, authentication not skipped) whose
\* first attempt was answered 401 awaits one refresh, which calls the refresh
\* endpoint (unless the credential store rejected the read that precedes the
\* call), and then retries once or, when the refresh failed, fails.
C17_CookieMode ==
  authMode = "cookie" =>
    /\ \A e \in Episodes : episode[e].pc = "fetch" => episode[e].body = None
    /\ \A r \in Reqs :
         /\ req[r].pc \notin {"bh_exp", "bh_wait", "bh_tok"}
         /\ req[r].pc = "fetch" => "Authorization" \notin DOMAIN req[r].sent
         /\ req[r].attempts <= 2
         /\ (/\ autoRefresh /\ ~req[r].skipAuth /\ req[r].upload = "no"
             /\ Len(req[r].answers) >= 1 /\ req[r].answers[1] = 401)
            => IF req[r].pc = "r_wait"
               THEN req[r].attempts = 1 /\ req[r].refreshes = 0
               ELSE /\ req[r].refreshes =
                         (IF req[r].got.error = "STORAGE_GET_FAILED" THEN 0 ELSE 1)
                    /\ req[r].got.ep # 0
                    /\ \/ req[r].attempts = 2
                       \/ /\ Done(r) /\ req[r].result = "error"
                          /\ req[r].authErrors = 1

\* a cookie-mode call with a refresh token in the store was answered 401,
\* refreshed and succeeded on the retry
C17_Witness ==
  /\ authMode = "cookie"
  /\ \E r \in Reqs :
       /\ req[r].answers = <<401, 200>> /\ Done(r)
       /\ req[r].refreshes = 1

\* ------------------------------------------------------------------ C18
\* C18: the connection-state listeners are notified with true by every step
\* that makes the connection Connected, with false by every step that ends
\* Connected (a transport-reported disconnect or disconnect()), and are not
\* notified by a step that creates a handle or starts a reconnect attempt.
C18_ListenersNotified ==
  [][/\ (~SocketConnected /\ SocketConnected') => notice' = "true"
     /\ (SocketConnected /\ ~SocketConnected') => notice' = "false"
     /\ nsock' # nsock => notice' = "none"
     /\ (\E s \in SocketIds :
           socks[s].state # "retrying" /\ socks'[s].state = "retrying")
          => notice' = "none"]_vars

\* ------------------------------------------------------------------ C19
\* C19: with a static token configured, every attempt in flight of an
\* authenticated jwt-mode call carries that token as its bearer token, and the
\* realtime handle was created with that token as its credential.
C19_StaticTokenUsed ==
  configToken # None =>
    /\ \A r \in Reqs :
         (authMode = "jwt" /\ ~req[r].skipAuth /\ req[r].pc = "fetch")
           => BearerSent(r) = configToken
    /\ socket # 0 => authToken = configToken

\* ------------------------------------------------------------------ C20
\* the refresh episodes that have started and not settled
InFlight == {e \in Episodes : episode[e].pc \notin {"unused", "ok", "fail"}}

C22_RegistryOnTransport ==
  SocketConnected =>
    \A c \in DOMAIN subscriptions :
      /\ c \in socks[socket].rooms
      /\ socks[socket].listeners[c] >= 1

\* ------------------------------------------------------------------ C23
\* C23: from the return of disconnect() until the next call of connect() the
\* module holds no transport handle, whether or not a connection attempt was
\* outstanding when disconnect() was called.
C23_StaysDisconnected == tornDown => socket = 0

\* ------------------------------------------------------------------ C24
\* the POST /auth/refresh of AuthModule.refreshToken() is in flight
DirectRefreshCall ==
  authRefresh.pc = "post" /\ req[authRefresh.r].pc = "fetch"

\* an episode of the coordinator is writing the tokens of its answer
EpisodeWriting == \E e \in Episodes : episode[e].pc \in {"k1", "k2", "k3"}

\* C24: no call to the refresh endpoint is in flight and no refreshed token
\* is being written outside a refresh episode of the coordinator, and no
\* refresh writes its access token while another one is still writing the
\* tokens of its own answer.
C24_SoleWriter ==
  /\ [](/\ ~DirectRefreshCall
        /\ authRefresh.pc \notin {"s1", "s2"})
  /\ [][StorageGet(store', ACCESS_TOKEN) # StorageGet(store, ACCESS_TOKEN) =>
          /\ ~(EpisodeWriting /\ authRefresh.pc = "post" /\ authRefresh'.pc = "s1")
          /\ ~(authRefresh.pc \in {"s1", "s2"} /\ EpisodeWriting'
               /\ ~EpisodeWriting)]_vars

\* ------------------------------------------------------------------ C25
\* the access token, the refresh token and the expiry are absent from store s
TokenPairAbsent(s) ==
  {ACCESS_TOKEN, REFRESH_TOKEN, TOKEN_EXPIRY} \cap DOMAIN s = {}

\* C25: when the refresh a call awaited after its 401 has failed and the call
\* is rejected with that failure, the store holds no access token, no refresh
\* token and no expiry.
C25_ClearedOnFatalFailure ==
  [][\A r \in Reqs :
       (req[r].pc = "r_wait" /\ req'[r].pc = "done") => TokenPairAbsent(store')]_vars

\* ------------------------------------------------------------------ C26
\* the access tokens refresh episodes have written so far
RefreshedTokens ==
  {NewToken(e) : e \in {x \in Episodes : episode[x].pc \in {"k1", "k2", "k3", "ok"}}}

\* C26: in jwt mode the retry in flight after a 401 carries as its bearer
\* token an access token that a refresh wrote, and not the token of the
\* attempt that was answered 401.
C26_RetryCarriesRefreshed ==
  \A r \in Reqs :
    (authMode = "jwt" /\ req[r].phase = 2 /\ req[r].pc = "fetch")
      => /\ BearerSent(r) \in RefreshedTokens
         /\ BearerSent(r) # req[r].rejected

\* ------------------------------------------------------------------ C27
\* the keys the tokens object of episode e calls for
KeysOf(ep) ==
  {ACCESS_TOKEN} \cup (IF ep.refreshToken # None THEN {REFRESH_TOKEN} ELSE {})
                 \cup (IF ep.expiresAt # 0 THEN {TOKEN_EXPIRY} ELSE {})

\* C27: a refresh episode that settles successfully has written every token of
\* its answer before the step in which it calls onTokenRefresh, and calls it
\* once, however many calls await it; an episode that settles with a failure
\* has written nothing and has not called it.
C27_StoreThenNotify ==
  [][\A e \in Episodes :
       /\ (~Settled(e) /\ episode'[e].pc = "ok")
            => /\ episode[e].written = KeysOf(episode[e])
               /\ episode'[e].notified = 1
       /\ (~Settled(e) /\ episode'[e].pc = "fail")
            => /\ episode'[e].written = {}
               /\ episode'[e].notified = 0
       /\ Settled(e) => episode'[e].notified = episode[e].notified]_vars

\* ------------------------------------------------------------------ C28
\* C28: when the episode continues after reading no refresh token, in jwt mode
\* it fails with NO_REFRESH_TOKEN, the refresh endpoint is not called and the
\* store is left as it is; in cookie mode the refresh endpoint is called.
C28_NoRefreshToken ==
  [][\A e \in Episodes :
       (/\ episode[e].pc = "readRT" /\ episode[e].rt = None
        /\ episode'[e].pc # "readRT"
        /\ episode'[e].error # "STORAGE_GET_FAILED")
       => IF authMode = "jwt"
          THEN /\ episode'[e].pc = "fail"
               /\ episode'[e].error = "NO_REFRESH_TOKEN"
               /\ refreshCalls' = refreshCalls
               /\ store' = store
          ELSE /\ episode'[e].pc = "fetch"
               /\ refreshCalls' = refreshCalls + 1]_vars

\* a jwt-mode call answered 401 with no refresh token stored was rejected with
\* NO_REFRESH_TOKEN and the refresh endpoint was never called
C28_Witness ==
  /\ authMode = "jwt" /\ refreshCalls = 0
  /\ \E e \in Episodes : episode[e].error = "NO_REFRESH_TOKEN"
  /\ \E r \in Reqs : Done(r) /\ req[r].code = "NO_REFRESH_TOKEN"

\* ------------------------------------------------------------------ C29
\* C29: every callback that is registered for the collection of an inbound
\* event when the event arrives is invoked exactly once for it, also when a
\* callback removes itself or another callback of the collection during the
\* dispatch.
C29_DispatchOnSnapshot ==
  [][\A c \in Collections :
       lastEvent' = c => \A i \in Callbacks(c) : delivered'[i] = 1]_vars

\* ------------------------------------------------------------------ C30
\* C30: the step in which the transport reports a disconnect of a connected
\* handle leaves the subscription registry and the execution registry as they
\* are and notifies the connection-state listeners with false.
C30_DisconnectKeepsRegistries ==
  [][(\E s \in SocketIds :
        socks[s].state = "connected" /\ socks'[s].state = "down")
     => /\ subscriptions' = subscriptions
        /\ workflowCallbacks' = workflowCallbacks
        /\ notice' = "false"]_vars

\* the current handle went down with a collection and an execution registered
C30_Witness ==
  /\ socket # 0 /\ socks[socket].state = "down"
  /\ notice = "false"
  /\ "products" \in DOMAIN subscriptions
  /\ workflowCallbacks # EmptyObj

\* ------------------------------------------------------------------ C31
\* C31: the step in which the timeout of a call expires while a refresh is
\* pending leaves the refresh episode, the pending promise and the store as
\* they are and detaches no call from it; and whatever a call was handed by
\* the refresh it awaited is what that episode settled with.
C31_TimeoutLeavesRefresh ==
  /\ [][(refreshPromise # 0 /\
          \E r \in Reqs :
            /\ req[r].timer = "armed"
            /\ \/ req'[r].timer = "fired"
               \/ req'[r].pc = "done" /\ req'[r].code = "TIMEOUT")
        => /\ episode' = episode
           /\ refreshPromise' = refreshPromise
           /\ store' = store
           /\ \A q \in Reqs : req'[q].ep = req[q].ep]_vars
  /\ [](\A q \in Reqs : req[q].got.ep # 0 => req[q].got = Outcome(req[q].got.ep))

\* the timeout of one call expired while it awaited the refresh another call
\* was attached to; the refresh succeeded and the other call was handed its
\* tokens
C31_Witness ==
  \E r, q \in Reqs :
    /\ r # q
    /\ req[r].timer = "fired"
    /\ req[r].got.ep # 0 /\ req[q].got.ep = req[r].got.ep
    /\ req[q].got.pc = "ok" /\ req[q].got.token = NewToken(req[q].got.ep)
    /\ StorageGet(store, ACCESS_TOKEN) = NewToken(req[q].got.ep)

\* ------------------------------------------------------------------ C32
\* the callbacks registered for execution id x
ExecCallbacks(x) == IF x \in DOMAIN workflowCallbacks THEN workflowCallbacks[x] ELSE {}

\* C32: a step sends a join intent exactly when it is a subscribeToExecution
\* call made while connected, and then one; removing a callback and a
\* reconnect send none. The set of an id changes only by the callback a
\* subscribeToExecution call adds, by the callback an unsubscribe closure
\* removes, or by disconnect() clearing the registry; no id has an empty
\* record; and a step of subscribe() or of a collection unsubscribe closure
\* leaves the registry as it is.
C32_ExecutionRegistry ==
  /\ [][/\ emitted'.join =
             (IF nextExecCb' # nextExecCb /\ SocketConnected THEN 1 ELSE 0)
        /\ \A x \in ExecIds :
             \/ ExecCallbacks(x)' = ExecCallbacks(x)
             \/ /\ nextExecCb' = nextExecCb + 1
                /\ ExecCallbacks(x)' = ExecCallbacks(x) \cup {nextExecCb'}
             \/ /\ nextExecCb' = nextExecCb /\ socket' = socket
                /\ \E i \in ExecCallbacks(x) : ExecCallbacks(x)' = ExecCallbacks(x) \ {i}
             \/ tornDown' /\ socket' = 0 /\ workflowCallbacks' = EmptyObj
        /\ (nextCb' # nextCb \/ calledHandle' # <<>>)
             => workflowCallbacks' = workflowCallbacks]_vars
  /\ [](\A x \in DOMAIN workflowCallbacks : workflowCallbacks[x] # {})

\* after a reconnect, the first of two callbacks of an execution was removed:
\* the record is still there with the second one and nothing was sent
C32_Witness ==
  /\ SocketConnected /\ reconnects = 1
  /\ nextExecCb = 2
  /\ ExecCallbacks("42") = {2}
  /\ emitted.join = 0

\* ------------------------------------------------------------------ C33
\* the handles created by connect() that socket.disconnect() has not torn down:
\* connecting, connected, or down / retrying under the transport's auto-reconnect
OpenHandles == {s \in SocketIds : socks[s].state \in {"connecting", "connected", "down", "retrying"}}

\* C33: in every reachable state at most one transport handle is open, and
\* an open handle is the one the module holds in this.socket.
C33_OneOpenHandle ==
  /\ Cardinality(OpenHandles) <= 1
  /\ \A s \in OpenHandles : socket = s

\* ------------------------------------------------------------------ C34
\* C34: a step in which the transport acknowledges the connection of the
\* handle a pending connect() attempt created resolves every call awaiting
\* that attempt, and a step in which the transport reports a connection error
\* for that handle rejects them; either way no call is left pending.
C34_ConnectSettles ==
  [][\A s \in SocketIds :
       (connectionPromise = "pending" /\ awaited = s /\
        socks[s].state \in {"connecting", "retrying"})
       => /\ socks'[s].state = "connected"
               => /\ settledCallers' = [NoCallers EXCEPT !.resolved = callers]
                  /\ connectionPromise' = "none"
          /\ socks'[s].state = "down"
               => /\ settledCallers' = [NoCallers EXCEPT !.rejected = callers]
                  /\ connectionPromise' = "none"]_vars

\* ------------------------------------------------------------------ C35
\* C35: a step that calls notifyConnectionChange invokes every registered
\* listener, whether or not one of them raises; and the step in which the
\* transport acknowledges the handle of the pending attempt resolves the
\* connect() calls awaiting it, whether or not a listener raises.
C35_ListenerErrorContained ==
  [][notice' # "none"
       => /\ notified'.called = connectionCallbacks
          /\ \A s \in SocketIds :
               (connectionPromise = "pending" /\ awaited = s /\
                socks[s].state # "connected" /\ socks'[s].state = "connected")
               => /\ connectionPromise' = "none"
                  /\ settledCallers' = [NoCallers EXCEPT !.resolved = callers]]_vars

\* ------------------------------------------------------------------ C36
\* C36: in every state in which logout() has completed the store holds neither
\* an access token nor a refresh token, whatever the refresh episodes that were
\* in flight while it ran do afterwards.
C36_LoggedOutStaysCleared ==
  logout.pc = "done" => TokenPairAbsent(store)

\* ------------------------------------------------------------------ C37
\* the tenant buildHeaders() puts into the tenant header, None when it puts none
HeaderTenant ==
  IF "X-Tenant-Id" \in DOMAIN BaseHeaders THEN BaseHeaders["X-Tenant-Id"] ELSE None

\* C37: after a step that changes config.tenantId or the stored tenant, or
\* that completes switchTenant() or logout(), and leaves none of the tenant
\* operations running, the tenant header a request carries is the tenant the
\* store holds, and none is sent when the store holds none.
C37_HeaderTenantIsStored ==
  [][(/\ \/ tenantId' # tenantId
         \/ StorageGet(store', TENANT) # StorageGet(store, TENANT)
         \/ tenantCall.pc = "s3" /\ tenantCall'.pc = "idle"
         \/ logout.pc # "done" /\ logout'.pc = "done"
      /\ tenantCall'.pc = "idle" /\ logout'.pc \in {"idle", "done"})
     => HeaderTenant' = StorageGet(store', TENANT)]_vars

\* ------------------------------------------------------------------ C38
\* the callbacks in the Subscription Registry
Registered == UNION {subscriptions[c] : c \in DOMAIN subscriptions}

\* C38: while the channel holds no unsubscribe closure, that is before its
\* first subscribe() and from the return of unsubscribe() to the next
\* subscribe(), no callback the channel registered is in the registry.
C38_ChannelFullyRemoved ==
  channel.fn = <<>> => Registered \cap channel.mine = {}

\* ------------------------------------------------------------------ C39
\* the refresh request() awaited on its 401 path failed: the call settled with
\* that failure and made no retry
ReactiveRefreshFailed(r) ==
  /\ req[r].phase = 1 /\ req[r].answers = <<401>>
  /\ req[r].got.pc = "fail"

\* the retry of the call was answered 401
RetryUnauthorized(r) == Len(req[r].answers) = 2 /\ req[r].answers[2] = 401

\* C39: a settled request() call has fired onAuthError once when its refresh
\* on the 401 path failed or its retry was answered 401 and never otherwise:
\* not when the retry was answered another error status or failed in
\* transport, not when authentication was skipped, not when it resolved.
C39_AuthErrorExactlyWhen ==
  \A r \in Reqs :
    (Done(r) /\ req[r].upload = "no") =>
      req[r].authErrors =
        (IF ReactiveRefreshFailed(r) \/ RetryUnauthorized(r) THEN 1 ELSE 0)

\* ------------------------------------------------------------------ C40
\* C40: a settled upload() call (authentication not skipped, autoRefresh
\* enabled) whose first attempt was answered 401 awaited a refresh; when that
\* refresh succeeded it made a second attempt, which carried the access token
\* the refresh wrote; and when it was rejected it fired onAuthError once.
C40_UploadRefreshesAndRetries ==
  \A r \in Reqs :
    (/\ req[r].upload # "no" /\ ~req[r].skipAuth /\ autoRefresh
     /\ Done(r) /\ req[r].answers # <<>> /\ req[r].answers[1] = 401)
    => /\ req[r].got.ep # 0
       /\ req[r].got.pc = "ok" => req[r].attempts = 2
       /\ req[r].result = "error" => req[r].authErrors = 1

====
